---- MODULE Spec2Model ----
(***************************************************************************)
(* Partial-order alignment core of genominicus (src/src/align/mod.rs and   *)
(* src/src/align/poa.rs): the POA graph, insert_hanging_seq, update_edge,  *)
(* add_alignment, build_matrix, affine_sw, align and poa_to_strings.       *)
(*                                                                         *)
(* Conventions.  Rust indices are 0-based; here a NodeIndex n is the       *)
(* number n+1 (position of the node in g.nodes), a sequence position p is  *)
(* the number p+1, and the matrix rows/columns keep the code's numbering   *)
(* (row 0 / column 0 are the borders, row r is the node of topological     *)
(* rank r-1 in the code, i.e. of rank r here).  Option::None is None.      *)
(* petgraph's Graph keeps, per node, a linked list of incident edges with  *)
(* the most recently added edge first; edges_directed and neighbors        *)
(* iterate in that order.                                                  *)
(* The loops over the matrices bind each updated value through a           *)
(* singleton set (CHOOSE r \in {Loop(M1, ..) : M1 \in {update}} : TRUE), so  *)
(* that it is evaluated before the next iteration starts.                  *)
(***************************************************************************)
EXTENDS Integers, Sequences, FiniteSets, TLC

(* ---------------------------------------------------------------- bounds *)
NumSeqs == 3
MaxLen == 3
NumFam == 1

(* ------------------------------------------------------------- constants *)
NEG_INF == -3000000
matches == 10
mismatches == 0
open_gap == -1
extend_gap == -1
MarkerBonus == 100

Marker == 0
Indel == -1
None == -2

SeqIDs == 1..NumSeqs
Families == 1..NumFam
Nucleotide == {Marker} \cup Families

max(a, b) == IF a >= b THEN a ELSE b

rev(s) == [k \in 1..Len(s) |-> s[Len(s) + 1 - k]]

(* ------------------------------------------------------------- POA graph *)
(* POAGraph = Graph<POANode, Vec<SeqID>>: nodes is the node arena (each    *)
(* element is the node's nucs map), edges the edge arena in insertion      *)
(* order.                                                                  *)
EmptyGraph == [nodes |-> <<>>, edges |-> <<>>]

node_count(g) == Len(g.nodes)

add_node(g, nucs) == [g EXCEPT !.nodes = Append(@, nucs)]

RECURSIVE SelectEdges(_, _, _, _)
SelectEdges(g, k, node, incoming) ==
    IF k = 0 THEN <<>>
    ELSE LET e == g.edges[k]
             hit == IF incoming THEN e.target = node ELSE e.source = node
         IN  IF hit THEN <<e>> \o SelectEdges(g, k - 1, node, incoming)
             ELSE SelectEdges(g, k - 1, node, incoming)

(* variant: the edges in the order they were inserted *)
edges_directed_oldest_first(g, node, incoming) ==
    rev(SelectEdges(g, Len(g.edges), node, incoming))

(* g.edges_directed(node, dir): the most recently inserted edge first *)
edges_directed(g, node, incoming) == SelectEdges(g, Len(g.edges), node, incoming)

find_edge(g, start, end) ==
    LET hits == {k \in 1..Len(g.edges) :
                    g.edges[k].source = start /\ g.edges[k].target = end}
    IN  IF hits = {} THEN None ELSE CHOOSE k \in hits : \A h \in hits : k >= h

(* Variant of update_edge that never looks for an existing edge. *)
update_edge_always_new(g, start, end, label) ==
    IF ~(start # None /\ end # None) THEN g
    ELSE [g EXCEPT !.edges =
              Append(@, [source |-> start, target |-> end, weight |-> <<label>>])]

(* Variant of update_edge that behaves like petgraph's own Graph::update_edge: *)
(* the weight of an existing edge is replaced by the new label.            *)
update_edge_overwrite(g, start, end, label) ==
    IF ~(start # None /\ end # None) THEN g
    ELSE LET e == find_edge(g, start, end)
         IN  IF e # None
             THEN [g EXCEPT !.edges[e].weight = <<label>>]
             ELSE [g EXCEPT !.edges =
                       Append(@, [source |-> start, target |-> end, weight |-> <<label>>])]

(* Variant of update_edge that puts the label in front of an existing one. *)
update_edge_prepend(g, start, end, label) ==
    IF ~(start # None /\ end # None) THEN g
    ELSE LET e == find_edge(g, start, end)
         IN  IF e # None
             THEN [g EXCEPT !.edges[e].weight = <<label>> \o @]
             ELSE [g EXCEPT !.edges =
                       Append(@, [source |-> start, target |-> end, weight |-> <<label>>])]

update_edge(g, start, end, label) ==
    IF ~(start # None /\ end # None) THEN g
    ELSE LET e == find_edge(g, start, end)
         IN  IF e # None
             THEN [g EXCEPT !.edges[e].weight = Append(@, label)]
             ELSE [g EXCEPT !.edges =
                       Append(@, [source |-> start, target |-> end, weight |-> <<label>>])]

(* ------------------------------------------------------------- toposort *)
(* petgraph::algo::toposort: iterative depth-first search started from     *)
(* the nodes in decreasing index order; a node is pushed on finish_stack   *)
(* when it is met on the stack for the second time; the result is the      *)
(* reversed finish_stack.                                                  *)
RECURSIVE PushSuccs(_, _, _, _)
PushSuccs(succs, k, discovered, stack) ==
    IF k > Len(succs) THEN stack
    ELSE PushSuccs(succs, k + 1, discovered,
                   IF succs[k].target \in discovered THEN stack
                   ELSE Append(stack, succs[k].target))

RECURSIVE DfsLoop(_, _, _, _, _)
DfsLoop(g, stack, discovered, finished, finish_stack) ==
    IF stack = <<>>
    THEN [discovered |-> discovered, finished |-> finished, finish_stack |-> finish_stack]
    ELSE LET nx == stack[Len(stack)]
         IN  IF nx \notin discovered
             THEN DfsLoop(g,
                          PushSuccs(edges_directed(g, nx, FALSE), 1,
                                    discovered \cup {nx}, stack),
                          discovered \cup {nx}, finished, finish_stack)
             ELSE DfsLoop(g, SubSeq(stack, 1, Len(stack) - 1), discovered,
                          finished \cup {nx},
                          IF nx \in finished THEN finish_stack
                          ELSE Append(finish_stack, nx))

RECURSIVE DfsFrom(_, _, _, _, _)
DfsFrom(g, i, discovered, finished, finish_stack) ==
    IF i = 0 THEN finish_stack
    ELSE IF i \in discovered
         THEN DfsFrom(g, i - 1, discovered, finished, finish_stack)
         ELSE LET r == DfsLoop(g, <<i>>, discovered, finished, finish_stack)
              IN  DfsFrom(g, i - 1, r.discovered, r.finished, r.finish_stack)

HasCycle(g) ==
    LET N == 1..node_count(g)
        E == {<<g.edges[k].source, g.edges[k].target>> : k \in 1..Len(g.edges)}
        RECURSIVE Peel(_)
        Peel(S) == LET src == {n \in S : ~\E p \in S : <<p, n>> \in E}
                   IN  IF src = {} THEN S ELSE Peel(S \ src)
    IN  Peel(N) # {}

(* toposort(g) is Err(Cycle) exactly when the graph has a cycle, and       *)
(* otherwise Ok(the reversed finish_stack).                                *)
toposort_is_err(g) == HasCycle(g)

toposort(g) == rev(DfsFrom(g, node_count(g), {}, {}, <<>>))

(* ---------------------------------------------------------- build_matrix *)
(* The three matrices M.H, M.F, M.E have rows 0..m and columns 0..n and    *)
(* start filled with 0 (vec![0; m_width * m_height]).                      *)
ZeroMatrix(m, n) == [i \in 0..m |-> [j \in 0..n |-> 0]]

ZeroMatrices(m, n) == [H |-> ZeroMatrix(m, n), F |-> ZeroMatrix(m, n), E |-> ZeroMatrix(m, n)]

(* nucs[node]: the symbols held by the node (g[node].nucs.values()) *)
NodeNucs(g, node) == {g.nodes[node][id] : id \in DOMAIN g.nodes[node]}

(* Variant of match_cost with the membership test inverted. *)
match_cost_inverted(nucs_node, sym) ==
    IF sym \notin nucs_node
    THEN IF sym = Marker THEN MarkerBonus ELSE matches
    ELSE mismatches

match_cost(nucs_node, sym) ==
    IF sym \in nucs_node
    THEN IF sym = Marker THEN MarkerBonus ELSE matches
    ELSE mismatches

(* for j in 1..m_width { F[j] = NEG_INF; E[j] = _g + (j - 1) * e } *)
RECURSIVE TopRowLoop(_, _, _)
TopRowLoop(M, j, n) ==
    IF j > n THEN M
    ELSE CHOOSE r \in {TopRowLoop(M1, j + 1, n) :
                           M1 \in {[M EXCEPT !.F[0][j] = NEG_INF,
                                             !.E[0][j] = open_gap + (j - 1) * extend_gap]}} :
             TRUE

RECURSIVE PenaltyLoop(_, _, _, _, _)
PenaltyLoop(edges, k, nodes_to_ranks, M, penalty) ==
    IF k > Len(edges) THEN penalty
    ELSE PenaltyLoop(edges, k + 1, nodes_to_ranks, M,
                     max(penalty, M.F[nodes_to_ranks[edges[k].source]][0]))

(* The border column.  Row i takes the incoming edges of the node whose    *)
(* INDEX is i-1 in the code (NodeIndex::new(i - 1)), i.e. node i here,     *)
(* and reads the border cells of the rows of its predecessors' ranks.      *)
BorderNode(i, ranks_to_nodes) == i

RECURSIVE BorderLoop(_, _, _, _, _, _)
BorderLoop(g, ranks_to_nodes, nodes_to_ranks, M, i, m) ==
    IF i > m THEN M
    ELSE LET edges == edges_directed(g, BorderNode(i, ranks_to_nodes), TRUE)
             penalty == PenaltyLoop(edges, 1, nodes_to_ranks, M,
                                    IF edges = <<>> THEN open_gap - extend_gap
                                    ELSE NEG_INF)
         IN  CHOOSE r \in {BorderLoop(g, ranks_to_nodes, nodes_to_ranks, M1, i + 1, m) :
                               M1 \in {[M EXCEPT !.F[i][0] = penalty + extend_gap,
                                                 !.E[i][0] = NEG_INF]}} :
                 TRUE

(* H[1..m_width] = E[1..m_width]; H[i * m_width] = F[i * m_width] *)
CopyBorders(M, m, n) ==
    [M EXCEPT !.H = [i \in 0..m |-> [j \in 0..n |->
                        IF i = 0 /\ j >= 1 THEN M.E[0][j]
                        ELSE IF i >= 1 /\ j = 0 THEN M.F[i][0]
                        ELSE M.H[i][j]]]]

(* One predecessor's pass over a row: the first predecessor assigns, the   *)
(* others take the max with what is there.                                 *)
RECURSIVE PredLoop(_, _, _, _, _, _, _, _)
PredLoop(M, row, pred_row, nucs_node, seq, first, j, n) ==
    IF j > n THEN M
    ELSE LET h == M.H[pred_row][j - 1] + match_cost(nucs_node, seq[j])
             f == max(M.H[pred_row][j] + open_gap, M.F[pred_row][j] + extend_gap)
         IN  CHOOSE r \in {PredLoop(M1, row, pred_row, nucs_node, seq, first, j + 1, n) :
                               M1 \in {[M EXCEPT !.H[row][j] = IF first THEN h ELSE max(@, h),
                                                 !.F[row][j] = IF first THEN f ELSE max(@, f)]}} :
                 TRUE

RECURSIVE OtherPredsLoop(_, _, _, _, _, _, _, _)
OtherPredsLoop(M, row, preds, k, nodes_to_ranks, nucs_node, seq, n) ==
    IF k > Len(preds) THEN M
    ELSE CHOOSE r \in {OtherPredsLoop(M1, row, preds, k + 1, nodes_to_ranks,
                                      nucs_node, seq, n) :
                           M1 \in {PredLoop(M, row, nodes_to_ranks[preds[k].source],
                                            nucs_node, seq, FALSE, 1, n)}} :
             TRUE

(* E[row + j] = max(H[row + j - 1] + _g, E[row + j - 1] + e);              *)
(* H[row + j] = max(H[row + j], max(F[row + j], E[row + j]))               *)
RECURSIVE GapLoop(_, _, _, _)
GapLoop(M, row, j, n) ==
    IF j > n THEN M
    ELSE LET ev == max(M.H[row][j - 1] + open_gap, M.E[row][j - 1] + extend_gap)
         IN  CHOOSE r \in {GapLoop(M1, row, j + 1, n) :
                               M1 \in {[M EXCEPT !.E[row][j] = ev,
                                                 !.H[row][j] = max(@, max(M.F[row][j], ev))]}} :
                 TRUE

(* first predecessor of a node: preds[0], or the border row 0 *)
FirstPredRow(preds, nodes_to_ranks) ==
    IF preds = <<>> THEN 0 ELSE nodes_to_ranks[preds[1].source]

(* Variant of the loop over the nodes that skips "the other putative       *)
(* predecessors".                                                          *)
RECURSIVE RowsLoop_first_pred_only(_, _, _, _, _, _)
RowsLoop_first_pred_only(g, seq, ranks_to_nodes, nodes_to_ranks, M, k) ==
    IF k > Len(ranks_to_nodes) THEN M
    ELSE LET node_id == ranks_to_nodes[k]
             n == Len(seq)
             i == nodes_to_ranks[node_id]
             preds == edges_directed(g, node_id, TRUE)
             nn == NodeNucs(g, node_id)
             M1 == PredLoop(M, i, FirstPredRow(preds, nodes_to_ranks), nn, seq, TRUE, 1, n)
         IN  CHOOSE r \in {RowsLoop_first_pred_only(g, seq, ranks_to_nodes, nodes_to_ranks,
                                                    M3, k + 1) :
                               M3 \in {GapLoop(M1, i, 1, n)}} :
                 TRUE

RECURSIVE RowsLoop(_, _, _, _, _, _)
RowsLoop(g, seq, ranks_to_nodes, nodes_to_ranks, M, k) ==
    IF k > Len(ranks_to_nodes) THEN M
    ELSE LET node_id == ranks_to_nodes[k]
             n == Len(seq)
             i == nodes_to_ranks[node_id]
             preds == edges_directed(g, node_id, TRUE)
             nn == NodeNucs(g, node_id)
             M1 == PredLoop(M, i, FirstPredRow(preds, nodes_to_ranks), nn, seq, TRUE, 1, n)
             M2 == OtherPredsLoop(M1, i, preds, 2, nodes_to_ranks, nn, seq, n)
         IN  CHOOSE r \in {RowsLoop(g, seq, ranks_to_nodes, nodes_to_ranks, M3, k + 1) :
                               M3 \in {GapLoop(M2, i, 1, n)}} :
                 TRUE

build_matrix(g, seq, ranks_to_nodes, nodes_to_ranks) ==
    LET m == Len(ranks_to_nodes)
        n == Len(seq)
        M0 == TopRowLoop(ZeroMatrices(m, n), 1, n)
        M1 == BorderLoop(g, ranks_to_nodes, nodes_to_ranks, M0, 1, m)
    IN  RowsLoop(g, seq, ranks_to_nodes, nodes_to_ranks, CopyBorders(M1, m, n), 1)

(* -------------------------------------------------------------- affine_sw *)
(* nodes_to_ranks[ranks_to_nodes[i].index()] = i *)
NodesToRanks(ranks_to_nodes) ==
    [node \in 1..Len(ranks_to_nodes) |->
        CHOOSE r \in 1..Len(ranks_to_nodes) : ranks_to_nodes[r] = node]

is_a_tail(g, node_id) == edges_directed(g, node_id, FALSE) = <<>>

(* variant: the fold without the is_a_tail test *)
RECURSIVE MaxTailFold_any_node(_, _, _, _, _, _, _)
MaxTailFold_any_node(g, ranks_to_nodes, nodes_to_ranks, M, max_j, k, ax) ==
    IF k > Len(ranks_to_nodes) THEN ax
    ELSE LET node_id == ranks_to_nodes[k]
             i == nodes_to_ranks[node_id]
             score == M.H[i][max_j]
         IN  MaxTailFold_any_node(g, ranks_to_nodes, nodes_to_ranks, M, max_j, k + 1,
                                  IF score > ax.max_score
                                  THEN [max_score |-> score, max_i |-> i]
                                  ELSE ax)

(* fold((NEG_INF, 0), ...): the first tail, in topological order, whose    *)
(* last-column score is strictly greater than every earlier one.           *)
RECURSIVE MaxTailFold(_, _, _, _, _, _, _)
MaxTailFold(g, ranks_to_nodes, nodes_to_ranks, M, max_j, k, ax) ==
    IF k > Len(ranks_to_nodes) THEN ax
    ELSE LET node_id == ranks_to_nodes[k]
             i == nodes_to_ranks[node_id]
             score == M.H[i][max_j]
         IN  MaxTailFold(g, ranks_to_nodes, nodes_to_ranks, M, max_j, k + 1,
                         IF is_a_tail(g, node_id) /\ score > ax.max_score
                         THEN [max_score |-> score, max_i |-> i]
                         ELSE ax)

(* rows of the predecessors in iteration order; row 0 when there is none *)
PredRows(g, node_id, nodes_to_ranks) ==
    LET preds == edges_directed(g, node_id, TRUE)
    IN  IF preds = <<>> THEN <<0>>
        ELSE [k \in 1..Len(preds) |-> nodes_to_ranks[preds[k].source]]

FirstOf(S) == CHOOSE k \in S : \A h \in S : k <= h

(* "Looking for a direct match": the first predecessor p, in iteration     *)
(* order, with hij == H[p][j-1] + match_cost; None when there is none.     *)
MatchPred(M, pred_rows, hij, j, mc) ==
    LET hits == {k \in 1..Len(pred_rows) : hij = M.H[pred_rows[k]][j - 1] + mc}
    IN  IF hits = {} THEN None ELSE pred_rows[FirstOf(hits)]

(* variant: the graph-only check never finds a predecessor *)
InsertPred_never(M, pred_rows, hij, j) == [pred_i |-> None, extend_up |-> FALSE]

(* "Try to add an insertion": the first predecessor p with                 *)
(* hij == F[p][j] + e (extend_up) or hij == H[p][j] + _g.                  *)
InsertPred(M, pred_rows, hij, j) ==
    LET ext(k) == hij = M.F[pred_rows[k]][j] + extend_gap
        opn(k) == hij = M.H[pred_rows[k]][j] + open_gap
        hits == {k \in 1..Len(pred_rows) : ext(k) \/ opn(k)}
    IN  IF hits = {} THEN [pred_i |-> None, extend_up |-> FALSE]
        ELSE [pred_i |-> pred_rows[FirstOf(hits)], extend_up |-> ext(FirstOf(hits))]

(* loop { push(None, Some(j - 1)); j -= 1;                                 *)
(*        if E[i][j] + e != E[i][j + 1] { break } }                        *)
(* variant: the extend_left loop moves left without recording the position *)
RECURSIVE ExtendLeft_skips_position(_, _)
ExtendLeft_skips_position(M, b) ==
    IF b.j = 0 THEN [b EXCEPT !.status = "panic"]
    ELSE LET b1 == [b EXCEPT !.j = b.j - 1]
         IN  IF M.E[b1.i][b1.j] + extend_gap # M.E[b1.i][b1.j + 1] THEN b1
             ELSE ExtendLeft_skips_position(M, b1)

RECURSIVE ExtendLeft(_, _)
ExtendLeft(M, b) ==
    IF b.j = 0 THEN [b EXCEPT !.status = "panic"]
    ELSE LET b1 == [b EXCEPT !.graph_idxs = Append(@, None),
                             !.seq_idxs = Append(@, b.j),
                             !.kinds = Append(@, "seq"),
                             !.steps = Append(@, [i |-> b.i, j |-> b.j, prev_i |-> b.i,
                                                  prev_j |-> b.j - 1,
                                                  kind |-> "extend_left"]),
                             !.j = b.j - 1]
         IN  IF M.E[b1.i][b1.j] + extend_gap # M.E[b1.i][b1.j + 1] THEN b1
             ELSE ExtendLeft(M, b1)

(* the for loop over the incoming edges inside the extend_up loop *)
UpPred(M, pred_rows, i, j) ==
    LET opn(k) == M.F[i][j] = M.H[pred_rows[k]][j] + open_gap
        ext(k) == M.F[i][j] = M.F[pred_rows[k]][j] + extend_gap
        hits == {k \in 1..Len(pred_rows) : opn(k) \/ ext(k)}
    IN  IF hits = {} THEN [prev_i |-> 0, stop |-> FALSE]
        ELSE [prev_i |-> pred_rows[FirstOf(hits)], stop |-> opn(FirstOf(hits))]

(* variant: the extend_up loop pushes the column as a consumed position *)
RECURSIVE ExtendUp_pushes_position(_, _, _, _, _)
ExtendUp_pushes_position(g, ranks_to_nodes, nodes_to_ranks, M, b) ==
    IF b.i = 0 THEN [b EXCEPT !.status = "panic"]
    ELSE LET node_id == ranks_to_nodes[b.i]
             preds == edges_directed(g, node_id, TRUE)
             up == IF preds = <<>> THEN [prev_i |-> 0, stop |-> FALSE]
                   ELSE UpPred(M, PredRows(g, node_id, nodes_to_ranks), b.i, b.j)
             b1 == [b EXCEPT !.graph_idxs = Append(@, node_id),
                             !.seq_idxs = Append(@, b.j),
                             !.kinds = Append(@, "graph"),
                             !.steps = Append(@, [i |-> b.i, j |-> b.j, prev_i |-> up.prev_i,
                                                  prev_j |-> b.j, kind |-> "extend_up"]),
                             !.prev_i = up.prev_i,
                             !.i = up.prev_i]
         IN  IF up.stop \/ b1.i = 0 THEN b1
             ELSE ExtendUp_pushes_position(g, ranks_to_nodes, nodes_to_ranks, M, b1)

RECURSIVE ExtendUp(_, _, _, _, _)
ExtendUp(g, ranks_to_nodes, nodes_to_ranks, M, b) ==
    IF b.i = 0 THEN [b EXCEPT !.status = "panic"]
    ELSE LET node_id == ranks_to_nodes[b.i]
             preds == edges_directed(g, node_id, TRUE)
             up == IF preds = <<>> THEN [prev_i |-> 0, stop |-> FALSE]
                   ELSE UpPred(M, PredRows(g, node_id, nodes_to_ranks), b.i, b.j)
             b1 == [b EXCEPT !.graph_idxs = Append(@, node_id),
                             !.seq_idxs = Append(@, None),
                             !.kinds = Append(@, "graph"),
                             !.steps = Append(@, [i |-> b.i, j |-> b.j, prev_i |-> up.prev_i,
                                                  prev_j |-> b.j, kind |-> "extend_up"]),
                             !.prev_i = up.prev_i,
                             !.i = up.prev_i]
         IN  IF up.stop \/ b1.i = 0 THEN b1
             ELSE ExtendUp(g, ranks_to_nodes, nodes_to_ranks, M, b1)

(* one iteration of "while i != 0 && j != 0" *)
BacktrackStep(g, seq, ranks_to_nodes, nodes_to_ranks, M, b) ==
    LET i == b.i
        j == b.j
        hij == M.H[i][j]
        node_id == ranks_to_nodes[i]
        pred_rows == PredRows(g, node_id, nodes_to_ranks)
        mp == MatchPred(M, pred_rows, hij, j, match_cost(NodeNucs(g, node_id), seq[j]))
        ip == InsertPred(M, pred_rows, hij, j)
        pred_found == mp # None \/ ip.pred_i # None
        extend_up == mp = None /\ ip.extend_up
        extend_left == ~pred_found /\ hij = M.E[i][j - 1] + extend_gap
        open_left == ~pred_found /\ ~extend_left /\ hij = M.H[i][j - 1] + open_gap
        prev_i == IF mp # None THEN mp
                  ELSE IF ip.pred_i # None THEN ip.pred_i
                  ELSE IF extend_left \/ open_left THEN i
                  ELSE b.prev_i
        prev_j == IF mp # None THEN j - 1
                  ELSE IF ip.pred_i # None THEN j
                  ELSE IF extend_left \/ open_left THEN j - 1
                  ELSE b.prev_j
        b1 == [b EXCEPT !.graph_idxs = Append(@, IF i = prev_i THEN None ELSE node_id),
                        !.seq_idxs = Append(@, IF j = prev_j THEN None ELSE j),
                        !.kinds = Append(@, IF mp # None THEN "match"
                                            ELSE IF ip.pred_i # None THEN "graph"
                                            ELSE IF extend_left \/ open_left THEN "seq"
                                            ELSE "none"),
                        !.steps = Append(@, [i |-> i, j |-> j, prev_i |-> prev_i,
                                             prev_j |-> prev_j,
                                             kind |-> IF mp # None THEN "match"
                                                      ELSE IF ip.pred_i # None THEN "graph"
                                                      ELSE IF extend_left \/ open_left THEN "seq"
                                                      ELSE "none"]),
                        !.i = prev_i, !.j = prev_j,
                        !.prev_i = prev_i, !.prev_j = prev_j,
                        !.unexplained = @ \/ ~(pred_found \/ extend_left \/ open_left)]
    IN  IF extend_left THEN ExtendLeft(M, b1)
        ELSE IF extend_up THEN ExtendUp(g, ranks_to_nodes, nodes_to_ranks, M, b1)
        ELSE b1

(* the while loop; fuel counts its iterations (status "loop" when a run    *)
(* makes more iterations than a strictly decreasing one can).              *)
RECURSIVE Backtrack(_, _, _, _, _, _, _)
Backtrack(g, seq, ranks_to_nodes, nodes_to_ranks, M, b, fuel) ==
    IF b.status # "ok" \/ ~(b.i # 0 /\ b.j # 0) THEN b
    ELSE IF fuel = 0 THEN [b EXCEPT !.status = "loop"]
    ELSE Backtrack(g, seq, ranks_to_nodes, nodes_to_ranks, M,
                   BacktrackStep(g, seq, ranks_to_nodes, nodes_to_ranks, M, b), fuel - 1)

(* affine_sw(g, seq, settings) -> (max_score, (graph_idxs, seq_idxs)) *)
affine_sw(g, seq) ==
    LET ranks_to_nodes == toposort(g)
    IN  IF toposort_is_err(g)
        THEN [status |-> "panic", score |-> NEG_INF, graph_idxs |-> <<>>, seq_idxs |-> <<>>,
              unexplained |-> FALSE, max_i |-> 0, kinds |-> <<>>,
              steps |-> <<>>]
        ELSE LET nodes_to_ranks == NodesToRanks(ranks_to_nodes)
                 M == build_matrix(g, seq, ranks_to_nodes, nodes_to_ranks)
                 start == MaxTailFold(g, ranks_to_nodes, nodes_to_ranks, M, Len(seq), 1,
                                      [max_score |-> NEG_INF, max_i |-> 0])
                 b == Backtrack(g, seq, ranks_to_nodes, nodes_to_ranks, M,
                                [i |-> start.max_i, j |-> Len(seq), prev_i |-> 0, prev_j |-> 0,
                                 graph_idxs |-> <<>>, seq_idxs |-> <<>>, status |-> "ok",
                                 unexplained |-> FALSE, kinds |-> <<>>, steps |-> <<>>],
                                Len(ranks_to_nodes) + Len(seq) + 1)
             IN  [status |-> b.status, score |-> start.max_score,
                  graph_idxs |-> rev(b.graph_idxs), seq_idxs |-> rev(b.seq_idxs),
                  unexplained |-> b.unexplained, max_i |-> start.max_i,
                  kinds |-> rev(b.kinds), steps |-> b.steps]

(* ----------------------------------------------------------- GraphGrafter *)
RECURSIVE HangingLoop(_, _, _, _, _)
HangingLoop(r, seq, seq_id, k, n) ==
    IF k > n THEN r
    ELSE LET g1 == add_node(r.g, [id \in {seq_id} |-> seq[k]])
             node == node_count(g1)
             g2 == IF r.last # None THEN update_edge(g1, r.last, node, seq_id) ELSE g1
         IN  HangingLoop([g |-> g2,
                          first |-> IF r.first = None THEN node ELSE r.first,
                          last |-> node],
                         seq, seq_id, k + 1, n)

(* Variant of insert_hanging_seq that returns the pair as (last, first). *)
insert_hanging_seq_swapped(g, seq, seq_id) ==
    IF seq = <<>> THEN [g |-> g, first |-> None, last |-> None]
    ELSE LET r == HangingLoop([g |-> g, first |-> None, last |-> None],
                              seq, seq_id, 1, Len(seq))
         IN  [g |-> r.g, first |-> r.last, last |-> r.first]

(* insert_hanging_seq(g, seq, seq_id) -> Option<(first, last)>, with the   *)
(* graph it leaves; first = last = None stands for the result None.        *)
insert_hanging_seq(g, seq, seq_id) ==
    IF seq = <<>> THEN [g |-> g, first |-> None, last |-> None]
    ELSE HangingLoop([g |-> g, first |-> None, last |-> None], seq, seq_id, 1, Len(seq))

(* Variant of the insertion that replaces the node's map by the new entry. *)
nucs_insert_replacing(nucs, seq_id, n) == [id \in {seq_id} |-> n]

(* g[graph_id].nucs.insert(seq_id, n) *)
nucs_insert(nucs, seq_id, n) ==
    [id \in DOMAIN nucs \cup {seq_id} |-> IF id = seq_id THEN n ELSE nucs[id]]

(* Variant of the loop step that links the new node to the previous one   *)
(* instead of the previous one to the new node.                            *)
AlignmentStep_backward(r, seq_idx, graph_id, seq, seq_id) ==
    IF seq_idx = None THEN r
    ELSE LET n == seq[seq_idx]
             g1 == IF graph_id = None
                   THEN add_node(r.g, [id \in {seq_id} |-> n])
                   ELSE [r.g EXCEPT !.nodes[graph_id] = nucs_insert(@, seq_id, n)]
             new_node == IF graph_id = None THEN node_count(g1) ELSE graph_id
         IN  [g |-> update_edge(g1, new_node, r.head_id, seq_id),
              head_id |-> new_node,
              first_id |-> IF r.first_id = None THEN new_node ELSE r.first_id]

(* Variant of the loop step that never advances head_id past the first    *)
(* node it reached.                                                        *)
AlignmentStep_stuck_head(r, seq_idx, graph_id, seq, seq_id) ==
    IF seq_idx = None THEN r
    ELSE LET n == seq[seq_idx]
             g1 == IF graph_id = None
                   THEN add_node(r.g, [id \in {seq_id} |-> n])
                   ELSE [r.g EXCEPT !.nodes[graph_id] = nucs_insert(@, seq_id, n)]
             new_node == IF graph_id = None THEN node_count(g1) ELSE graph_id
         IN  [g |-> update_edge(g1, r.head_id, new_node, seq_id),
              head_id |-> IF r.head_id = None THEN new_node ELSE r.head_id,
              first_id |-> IF r.first_id = None THEN new_node ELSE r.first_id]

(* Variant of the loop step that always takes the "no graph node" branch. *)
AlignmentStep_always_new(r, seq_idx, graph_id, seq, seq_id) ==
    IF seq_idx = None THEN r
    ELSE LET n == seq[seq_idx]
             g1 == add_node(r.g, [id \in {seq_id} |-> n])
             new_node == node_count(g1)
         IN  [g |-> update_edge(g1, r.head_id, new_node, seq_id),
              head_id |-> new_node,
              first_id |-> IF r.first_id = None THEN new_node ELSE r.first_id]

(* Variant of the loop step that records every node it reaches as the     *)
(* first one.                                                              *)
AlignmentStep_first_is_latest(r, seq_idx, graph_id, seq, seq_id) ==
    IF seq_idx = None THEN r
    ELSE LET n == seq[seq_idx]
             g1 == IF graph_id = None
                   THEN add_node(r.g, [id \in {seq_id} |-> n])
                   ELSE [r.g EXCEPT !.nodes[graph_id] = nucs_insert(@, seq_id, n)]
             new_node == IF graph_id = None THEN node_count(g1) ELSE graph_id
         IN  [g |-> update_edge(g1, r.head_id, new_node, seq_id),
              head_id |-> new_node,
              first_id |-> new_node]

(* Variant of the loop step that links the path through the graph nodes   *)
(* of the steps without sequence position.                                 *)
AlignmentStep_links_skipped(r, seq_idx, graph_id, seq, seq_id) ==
    IF seq_idx = None
    THEN [r EXCEPT !.g = update_edge(r.g, r.head_id, graph_id, seq_id),
                   !.head_id = graph_id]
    ELSE LET n == seq[seq_idx]
             g1 == IF graph_id = None
                   THEN add_node(r.g, [id \in {seq_id} |-> n])
                   ELSE [r.g EXCEPT !.nodes[graph_id] = nucs_insert(@, seq_id, n)]
             new_node == IF graph_id = None THEN node_count(g1) ELSE graph_id
         IN  [g |-> update_edge(g1, r.head_id, new_node, seq_id),
              head_id |-> new_node,
              first_id |-> IF r.first_id = None THEN new_node ELSE r.first_id]

(* one step of "for (seq_idx, graph_id) in seq_idxs.zip(graph_ids)" *)
AlignmentStep(r, seq_idx, graph_id, seq, seq_id) ==
    IF seq_idx = None THEN r
    ELSE LET n == seq[seq_idx]
             g1 == IF graph_id = None
                   THEN add_node(r.g, [id \in {seq_id} |-> n])
                   ELSE [r.g EXCEPT !.nodes[graph_id] = nucs_insert(@, seq_id, n)]
             new_node == IF graph_id = None THEN node_count(g1) ELSE graph_id
         IN  [g |-> update_edge(g1, r.head_id, new_node, seq_id),
              head_id |-> new_node,
              first_id |-> IF r.first_id = None THEN new_node ELSE r.first_id]

RECURSIVE AlignmentLoop(_, _, _, _, _, _)
AlignmentLoop(r, graph_ids, seq_idxs, seq, seq_id, k) ==
    IF k > Len(seq_idxs) \/ k > Len(graph_ids) THEN r
    ELSE AlignmentLoop(AlignmentStep(r, seq_idxs[k], graph_ids[k], seq, seq_id),
                       graph_ids, seq_idxs, seq, seq_id, k + 1)

ValidSeqIdxs(seq_idxs) == SelectSeq(seq_idxs, LAMBDA x : x # None)

(* Variant of add_alignment without the early return on an empty trace. *)
add_alignment_no_empty_return(g, graph_ids, seq_idxs, seq, seq_id) ==
    LET valid_seq_idxs == ValidSeqIdxs(seq_idxs)
    IN  IF valid_seq_idxs = <<>> THEN [g |-> g, head |-> None, status |-> "panic"]
        ELSE LET start_seq_idx == valid_seq_idxs[1]
                 end_seq_idx == valid_seq_idxs[Len(valid_seq_idxs)]
                 lead == IF start_seq_idx > 1
                         THEN insert_hanging_seq(g, SubSeq(seq, 1, start_seq_idx - 1), seq_id)
                         ELSE [g |-> g, first |-> None, last |-> None]
                 trail == IF end_seq_idx <= Len(seq)
                          THEN insert_hanging_seq(lead.g,
                                   SubSeq(seq, end_seq_idx + 1, Len(seq)), seq_id)
                          ELSE [g |-> lead.g, first |-> None, last |-> None]
                 tail_id == trail.first
                 r == AlignmentLoop([g |-> trail.g, head_id |-> lead.last,
                                     first_id |-> lead.first],
                                    graph_ids, seq_idxs, seq, seq_id, 1)
             IN  [g |-> update_edge(r.g, r.head_id, tail_id, seq_id),
                  head |-> r.first_id, status |-> "ok"]

(* Variant of add_alignment that does not insert the positions before the *)
(* first aligned one.                                                      *)
add_alignment_no_leading_chain(g, graph_ids, seq_idxs, seq, seq_id) ==
    LET valid_seq_idxs == ValidSeqIdxs(seq_idxs)
    IN  IF graph_ids = <<>> THEN [g |-> g, head |-> None, status |-> "ok"]
        ELSE IF valid_seq_idxs = <<>> THEN [g |-> g, head |-> None, status |-> "panic"]
        ELSE LET end_seq_idx == valid_seq_idxs[Len(valid_seq_idxs)]
                 trail == IF end_seq_idx <= Len(seq)
                          THEN insert_hanging_seq(g,
                                   SubSeq(seq, end_seq_idx + 1, Len(seq)), seq_id)
                          ELSE [g |-> g, first |-> None, last |-> None]
                 tail_id == trail.first
                 r == AlignmentLoop([g |-> trail.g, head_id |-> None, first_id |-> None],
                                    graph_ids, seq_idxs, seq, seq_id, 1)
             IN  [g |-> update_edge(r.g, r.head_id, tail_id, seq_id),
                  head |-> r.first_id, status |-> "ok"]

(* add_alignment(g, alignment, seq, seq_id) -> Option<NodeIndex>, with the *)
(* graph it leaves; status "panic" when valid_seq_idxs[0] does not exist.  *)
add_alignment(g, graph_ids, seq_idxs, seq, seq_id) ==
    LET valid_seq_idxs == ValidSeqIdxs(seq_idxs)
    IN  IF graph_ids = <<>> THEN [g |-> g, head |-> None, status |-> "ok"]
        ELSE IF valid_seq_idxs = <<>> THEN [g |-> g, head |-> None, status |-> "panic"]
        ELSE LET start_seq_idx == valid_seq_idxs[1]
                 end_seq_idx == valid_seq_idxs[Len(valid_seq_idxs)]
                 lead == IF start_seq_idx > 1
                         THEN insert_hanging_seq(g, SubSeq(seq, 1, start_seq_idx - 1), seq_id)
                         ELSE [g |-> g, first |-> None, last |-> None]
                 trail == IF end_seq_idx <= Len(seq)
                          THEN insert_hanging_seq(lead.g,
                                   SubSeq(seq, end_seq_idx + 1, Len(seq)), seq_id)
                          ELSE [g |-> lead.g, first |-> None, last |-> None]
                 tail_id == trail.first
                 r == AlignmentLoop([g |-> trail.g, head_id |-> lead.last,
                                     first_id |-> lead.first],
                                    graph_ids, seq_idxs, seq, seq_id, 1)
             IN  [g |-> update_edge(r.g, r.head_id, tail_id, seq_id),
                  head |-> r.first_id, status |-> "ok"]

(* -------------------------------------------------------- poa_to_strings *)
(* the first outgoing edge of node, in iteration order, whose weight       *)
(* contains seq_id; None when there is none                                *)
NextOnPath(g, node, seq_id) ==
    LET out == edges_directed(g, node, FALSE)
        hits == {k \in 1..Len(out) : \E x \in 1..Len(out[k].weight) : out[k].weight[x] = seq_id}
    IN  IF hits = {} THEN None ELSE out[FirstOf(hits)].target

RECURSIVE WalkRow(_, _, _, _, _, _)
WalkRow(g, column, seq_id, node, row, fuel) ==
    IF seq_id \notin DOMAIN g.nodes[node] THEN [row |-> row, status |-> "panic"]
    ELSE LET row1 == [row EXCEPT ![column[node]] = g.nodes[node][seq_id]]
             next == NextOnPath(g, node, seq_id)
         IN  IF next = None THEN [row |-> row1, status |-> "ok"]
             ELSE IF fuel = 0 THEN [row |-> row1, status |-> "loop"]
             ELSE WalkRow(g, column, seq_id, next, row1, fuel - 1)

(* Variant of poa_to_strings whose column of a node is its index. *)
poa_to_strings_index_columns(g, starts) ==
    LET nodes == toposort(g)
    IN  IF toposort_is_err(g) THEN [seq_id \in DOMAIN starts |-> [row |-> <<>>, status |-> "panic"]]
        ELSE LET column == [n \in 1..Len(nodes) |-> n]
             IN  [seq_id \in DOMAIN starts |->
                     WalkRow(g, column, seq_id, starts[seq_id],
                             [c \in 1..Len(nodes) |-> Indel], Len(nodes))]

(* poa_to_strings(g, starts): one row per entry of starts *)
poa_to_strings(g, starts) ==
    LET nodes == toposort(g)
    IN  IF toposort_is_err(g) THEN [seq_id \in DOMAIN starts |-> [row |-> <<>>, status |-> "panic"]]
        ELSE LET column == NodesToRanks(nodes)
             IN  [seq_id \in DOMAIN starts |->
                     WalkRow(g, column, seq_id, starts[seq_id],
                             [c \in 1..Len(nodes) |-> Indel], Len(nodes))]

(* ---------------------------------------------------------- ShiftRegister *)
(* shiftreg.rs. A register is the record [reg, i]; reg[n + 1] here is       *)
(* reg[n] there.                                                            *)
MaxShift == 3
MaxWrites == 6

(* ShiftRegister::new(shift, init), for shift > 0 *)
ShiftRegister_new(shift, init) == [reg |-> [n \in 1..shift |-> init], i |-> 0]

(* read(&self) *)
read(self) == self.reg[self.i + 1]

(* variant of write that stores the value at the index it moves to *)
write_at_new_index(self, t) ==
    LET i1 == (self.i + 1) % Len(self.reg)
    IN  [reg |-> [self.reg EXCEPT ![i1 + 1] = t], i |-> i1]

(* write(&mut self, t) *)
write(self, t) ==
    LET i1 == (self.i + 1) % Len(self.reg)
        new_idx == (i1 + (Len(self.reg) - 1)) % Len(self.reg)
    IN  [reg |-> [self.reg EXCEPT ![new_idx + 1] = t], i |-> i1]

(* ------------------------------------------------------------------ align *)
VARIABLES
    sr,           \* a ShiftRegister<bool>
    sr_init,      \* the value it was constructed with
    written,      \* the values handed to write(), in order
    last_read,    \* <<>> or <<[m, value]>>: what the last read() returned after m writes
    seqs,         \* the Sequences map handed to align(): SeqID -> Sequence
    iter_order,   \* the order in which seqs.iter() yields the keys
    sorted_seqs,  \* the keys of sorted_seqs, in order
    g,            \* the POAGraph
    starts,       \* the Heads collected so far: SeqID -> NodeIndex
    idx,          \* number of elements of sorted_seqs consumed by the iterator
    pc,           \* "sort", "graft", "aligned", "done" or "panic"
    log,          \* per consumed key: what the closure computed for it
    strings       \* the result of poa_to_strings

shiftvars == <<sr, sr_init, written, last_read>>

vars == <<seqs, iter_order, sorted_seqs, g, starts, idx, pc, log, strings, shiftvars>>

(* no register has been constructed *)
NoRegister ==
    /\ sr = [reg |-> <<>>, i |-> 0]
    /\ sr_init = FALSE
    /\ written = <<>>
    /\ last_read = <<>>

RECURSIVE SeqsOfLen(_)
SeqsOfLen(n) ==
    IF n = 0 THEN {<<>>}
    ELSE {Append(s, x) : s \in SeqsOfLen(n - 1), x \in Nucleotide}

AllSeqs == UNION {SeqsOfLen(n) : n \in 0..MaxLen}

(* the worked examples of the specification (section 8) *)
ReversedPair == <<<<1, Marker, 2>>, <<2, Marker, 1>>>>
IdenticalPair == <<<<1, 2, Marker, 3>>, <<1, 2, Marker, 3>>>>
SkipPair == <<<<1, 2, 3>>, <<1, 3>>>>

(* two sequences with one Marker each, at opposite ends of the same twelve *)
(* gene families                                                           *)
AnchorSplit ==
    <<<<Marker, 1, 2, 3, 4, 5, 6, 7, 8, 9, 10, 11, 12>>,
      <<1, 2, 3, 4, 5, 6, 7, 8, 9, 10, 11, 12, Marker>>>>

Inputs ==
    UNION {[1..k -> AllSeqs] : k \in 0..NumSeqs}
        \cup {ReversedPair, IdenticalPair, SkipPair, AnchorSplit}

Perms(S) ==
    {f \in [1..Cardinality(S) -> S] : \A a, b \in 1..Cardinality(S) : f[a] = f[b] => a = b}

RECURSIVE LongestFirst(_, _, _)
LongestFirst(m, order, len) ==
    IF len < 0 THEN <<>>
    ELSE SelectSeq(order, LAMBDA id : Len(m[id]) = len) \o LongestFirst(m, order, len - 1)

MaxSeqLen(m) ==
    IF DOMAIN m = {} THEN 0
    ELSE CHOOSE l \in {Len(m[id]) : id \in DOMAIN m} : \A id \in DOMAIN m : Len(m[id]) <= l

(* Variant of the sort that leaves the iteration order as it is. *)
sort_by_len_unsorted(m, order) == order

(* Variant of the sort that is not stable: equal lengths come out in the  *)
(* reverse of the iteration order.                                         *)
sort_by_len_ties_reversed(m, order) == LongestFirst(m, rev(order), MaxSeqLen(m))

(* sorted_seqs.sort_by(|(_, seq1), (_, seq2)| seq2.len().cmp(&seq1.len())): *)
(* a stable sort by decreasing length                                      *)
sort_by_len(m, order) == LongestFirst(m, order, MaxSeqLen(m))

Put(f, k, v) == [x \in DOMAIN f \cup {k} |-> IF x = k THEN v ELSE f[x]]

Init ==
    /\ seqs \in Inputs
    /\ iter_order \in Perms(DOMAIN seqs)
    /\ sorted_seqs = <<>>
    /\ g = EmptyGraph
    /\ starts = <<>>
    /\ idx = 0
    /\ pc = "sort"
    /\ log = <<>>
    /\ strings = <<>>
    /\ NoRegister

AfterElement == IF idx + 1 = Len(sorted_seqs) THEN "aligned" ELSE "graft"

(* lines 494-495 *)
Sort ==
    /\ pc = "sort"
    /\ sorted_seqs' = sort_by_len(seqs, iter_order)
    /\ pc' = IF iter_order = <<>> THEN "aligned" ELSE "graft"
    /\ UNCHANGED <<seqs, iter_order, g, starts, idx, log, strings, shiftvars>>

(* Variants of the orientation test: never reverse; prefer the lower score. *)
KeepDirect_always(direct_score, reverse_score) == TRUE

KeepDirect_flipped(direct_score, reverse_score) == direct_score <= reverse_score

(* Variant of the orientation test that reverses on equal scores. *)
KeepDirect_strict(direct_score, reverse_score) == direct_score > reverse_score

(* direct_score >= reverse_score *)
KeepDirect(direct_score, reverse_score) == direct_score >= reverse_score

(* the closure of filter_map for i == 0: insert_hanging_seq(&mut g, seq, id) *)
seed_element(graph, seq, id) ==
    LET new == insert_hanging_seq(graph, seq, id)
    IN  [g |-> new.g, head |-> new.first, status |-> "ok",
         log |-> [seq |-> seq, reversed |-> FALSE, direct_score |-> 0,
                  reverse_score |-> 0, graph_ids |-> <<>>, seq_idxs |-> <<>>]]

(* what the closure yields for i > 0, from the two alignments, the choice  *)
(* made and what add_alignment returned                                    *)
graft_added(graph, direct, reverse, keep, al, used, new) ==
    LET ok == direct.status = "ok" /\ reverse.status = "ok" /\ new.status = "ok"
    IN  [g |-> IF ok THEN new.g ELSE graph,
         head |-> IF ok THEN new.head ELSE None,
         status |-> IF ok THEN "ok" ELSE "panic",
         log |-> [seq |-> used, reversed |-> ~keep,
                  direct_score |-> direct.score, reverse_score |-> reverse.score,
                  graph_ids |-> al.graph_idxs, seq_idxs |-> al.seq_idxs]]

(* Variant of the choice that grafts the symbols of seq in both            *)
(* orientations (add_alignment(&mut g, &reverse_alignment, seq, id)).      *)
graft_scored_forward_symbols(graph, seq, id, direct, reverse) ==
    LET keep == KeepDirect(direct.score, reverse.score)
        al == IF keep THEN direct ELSE reverse
    IN  graft_added(graph, direct, reverse, keep, al, seq,
                    add_alignment(graph, al.graph_idxs, al.seq_idxs, seq, id))

(* if direct_score >= reverse_score { add_alignment(.., direct_alignment,  *)
(* seq, id) } else { add_alignment(.., reverse_alignment, rev_seq, id) }   *)
graft_scored(graph, seq, id, direct, reverse) ==
    LET keep == KeepDirect(direct.score, reverse.score)
        al == IF keep THEN direct ELSE reverse
        used == IF keep THEN seq ELSE rev(seq)
    IN  graft_added(graph, direct, reverse, keep, al, used,
                    add_alignment(graph, al.graph_idxs, al.seq_idxs, used, id))

(* Variant of the closure for i > 0 that commits the direct alignment      *)
(* before it evaluates the reversed sequence.                              *)
graft_element_reverse_after_direct(graph, seq, id) ==
    graft_scored(graph, seq, id, affine_sw(graph, seq),
                 affine_sw(add_alignment(graph, affine_sw(graph, seq).graph_idxs,
                                         affine_sw(graph, seq).seq_idxs, seq, id).g,
                           rev(seq)))

(* the closure of filter_map for i > 0 *)
graft_element(graph, seq, id) ==
    graft_scored(graph, seq, id, affine_sw(graph, seq), affine_sw(graph, rev(seq)))

(* align(seqs) -> (g, starts), for the order in which seqs.iter() yields   *)
(* the map: the whole function, lines 482-517.                             *)
RECURSIVE AlignLoop(_, _, _, _)
AlignLoop(m, sorted, i, acc) ==
    IF i >= Len(sorted) \/ acc.status # "ok" THEN acc
    ELSE LET id == sorted[i + 1]
             r == IF i = 0 THEN seed_element(acc.g, m[id], id)
                  ELSE graft_element(acc.g, m[id], id)
         IN  AlignLoop(m, sorted, i + 1,
                       [g |-> r.g,
                        starts |-> IF r.head # None THEN Put(acc.starts, id, r.head)
                                   ELSE acc.starts,
                        status |-> r.status])

align(m, order) ==
    AlignLoop(m, sort_by_len(m, order), 0,
              [g |-> EmptyGraph, starts |-> <<>>, status |-> "ok"])

Collect(r, id) ==
    /\ g' = r.g
    /\ starts' = IF r.head # None THEN Put(starts, id, r.head) ELSE starts
    /\ log' = Put(log, id, r.log)
    /\ pc' = IF r.status = "ok" THEN AfterElement ELSE "panic"
    /\ idx' = idx + 1
    /\ UNCHANGED <<seqs, iter_order, sorted_seqs, strings, shiftvars>>

Seed ==
    /\ pc = "graft" /\ idx = 0
    /\ \E r \in {seed_element(g, seqs[sorted_seqs[1]], sorted_seqs[1])} :
           Collect(r, sorted_seqs[1])

Graft ==
    /\ pc = "graft" /\ idx >= 1
    /\ \E r \in {graft_element(g, seqs[sorted_seqs[idx + 1]], sorted_seqs[idx + 1])} :
           Collect(r, sorted_seqs[idx + 1])

(* render/html.rs: poa_to_strings(&g, &heads) on what align returned *)
Project ==
    /\ pc = "aligned"
    /\ \E out \in {poa_to_strings(g, starts)} :
           /\ strings' = [id \in DOMAIN out |-> out[id].row]
           /\ pc' = IF \A id \in DOMAIN out : out[id].status = "ok" THEN "done" ELSE "panic"
    /\ UNCHANGED <<seqs, iter_order, sorted_seqs, g, starts, idx, log, shiftvars>>

Next == Sort \/ Seed \/ Graft \/ Project

Spec == Init /\ [][Next]_vars

(* ------------------------------------------- a ShiftRegister on its own *)
alignvars == <<seqs, iter_order, sorted_seqs, g, starts, idx, pc, log, strings>>

(* treeview.rs:353: ShiftRegister::new(3, false); any size from 1 to       *)
(* MaxShift and either initial value here                                   *)
ShiftInit ==
    /\ seqs = <<>> /\ iter_order = <<>> /\ sorted_seqs = <<>>
    /\ g = EmptyGraph /\ starts = <<>> /\ idx = 0
    /\ pc = "shiftreg" /\ log = <<>> /\ strings = <<>>
    /\ sr_init \in BOOLEAN
    /\ \E shift \in 1..MaxShift : sr = ShiftRegister_new(shift, sr_init)
    /\ written = <<>>
    /\ last_read = <<>>

(* pure_head.write(..) *)
ShiftWrite ==
    /\ Len(written) < MaxWrites
    /\ \E t \in BOOLEAN :
           /\ sr' = write(sr, t)
           /\ written' = Append(written, t)
    /\ UNCHANGED <<sr_init, last_read, alignvars>>

(* *pure_head.read() *)
ShiftRead ==
    /\ last_read' = <<[m |-> Len(written), value |-> read(sr)]>>
    /\ UNCHANGED <<sr, sr_init, written, alignvars>>

ShiftNext == ShiftWrite \/ ShiftRead

ShiftSpec == ShiftInit /\ [][ShiftNext]_vars

(* ------------------------------------------------------------ properties *)
Aligned == pc \in {"aligned", "done"}

HasLabel(e, id) == \E x \in 1..Len(e.weight) : e.weight[x] = id

Strip(row) == SelectSeq(row, LAMBDA x : x # Indel)

RECURSIVE SumLen(_, _)
SumLen(m, k) == IF k = 0 THEN 0 ELSE Len(m[k]) + SumLen(m, k - 1)

TotalLen(m) == SumLen(m, Cardinality(DOMAIN m))

PosIn(order, id) == CHOOSE k \in 1..Len(order) : order[k] = id

IsTopologicalOrder(graph, order) ==
    /\ Len(order) = node_count(graph)
    /\ {order[k] : k \in 1..Len(order)} = 1..node_count(graph)
    /\ \A k \in 1..Len(graph.edges) :
           PosIn(order, graph.edges[k].source) < PosIn(order, graph.edges[k].target)

InDegree(graph, node) == Cardinality({k \in 1..Len(graph.edges) : graph.edges[k].target = node})

OutDegree(graph, node) == Cardinality({k \in 1..Len(graph.edges) : graph.edges[k].source = node})

(* C1: in every state the graph is acyclic: petgraph's toposort, called at *)
(* the start of affine_sw and of poa_to_strings, does not return Err, and  *)
(* every edge goes forward in the order it returns.                        *)
C1_Acyclic ==
    /\ ~toposort_is_err(g)
    /\ IsTopologicalOrder(g, toposort(g))

(* three sequences grafted, some node with two predecessors, and a         *)
(* topological order that is not the order of the node indices             *)
C1_Witness ==
    /\ pc = "aligned" /\ idx = 3
    /\ \E node \in 1..node_count(g) : InDegree(g, node) >= 2
    /\ toposort(g) # [k \in 1..node_count(g) |-> k]

OutEdges(graph, node, id) ==
    {k \in 1..Len(graph.edges) : graph.edges[k].source = node /\ HasLabel(graph.edges[k], id)}

RECURSIVE PathOf(_, _, _, _)
PathOf(graph, node, id, fuel) ==
    IF OutEdges(graph, node, id) = {} \/ fuel = 0 THEN <<node>>
    ELSE <<node>> \o PathOf(graph,
                            graph.edges[CHOOSE k \in OutEdges(graph, node, id) : TRUE].target,
                            id, fuel - 1)

(* C2: for every SeqID, every node has at most one outgoing edge whose     *)
(* label contains it; the edges labelled with a SeqID that has a head are  *)
(* exactly the consecutive pairs of one simple path that starts at the     *)
(* head and visits exactly the nodes holding the SeqID; a SeqID without a  *)
(* head labels no edge and is held by no node.                             *)
C2_SinglePath ==
    \A id \in DOMAIN seqs :
        /\ \A node \in 1..node_count(g) : Cardinality(OutEdges(g, node, id)) <= 1
        /\ LET labelled == {<<g.edges[k].source, g.edges[k].target>> :
                                k \in {x \in 1..Len(g.edges) : HasLabel(g.edges[x], id)}}
               holding == {node \in 1..node_count(g) : id \in DOMAIN g.nodes[node]}
           IN  IF id \in DOMAIN starts
               THEN LET path == PathOf(g, starts[id], id, node_count(g))
                    IN  /\ \A a, b \in 1..Len(path) : path[a] = path[b] => a = b
                        /\ labelled = {<<path[k], path[k + 1]>> : k \in 1..(Len(path) - 1)}
                        /\ holding = {path[k] : k \in 1..Len(path)}
               ELSE labelled = {} /\ holding = {}

(* three paths through a graph that branches *)
C2_Witness ==
    /\ pc = "aligned" /\ DOMAIN starts = {1, 2, 3}
    /\ \E node \in 1..node_count(g) : OutDegree(g, node) >= 2
    /\ \E node \in 1..node_count(g) : Cardinality(DOMAIN g.nodes[node]) >= 2

Oriented(id) == IF log[id].reversed THEN rev(seqs[id]) ELSE seqs[id]

RowRoundTrip(id) == id \in DOMAIN strings /\ Strip(strings[id]) = Oriented(id)

(* C3: after poa_to_strings, every seq_id with a non-empty sequence has a  *)
(* row whose symbols, Indel removed, are the sequence, or its reverse when *)
(* the reversed orientation was grafted; a seq_id with an empty sequence   *)
(* has no head and no row.                                                 *)
C3_RoundTripNonEmpty ==
    pc = "done" =>
        \A id \in DOMAIN seqs :
            IF seqs[id] # <<>> THEN RowRoundTrip(id) ELSE id \notin DOMAIN strings

(* C3 as stated: every seq_id of the input has such a row. *)
C3_RoundTripAll ==
    pc = "done" => \A id \in DOMAIN seqs : RowRoundTrip(id)

(* a sequence grafted reversed, different from its reverse, with a gap in  *)
(* its row                                                                 *)
C3_Witness ==
    /\ pc = "done"
    /\ \E id \in DOMAIN seqs :
           /\ log[id].reversed /\ seqs[id] # rev(seqs[id])
           /\ \E c \in 1..Len(strings[id]) : strings[id][c] = Indel

(* the steps of id's trace that pair a sequence position with a graph node *)
PairedSteps(id) ==
    {k \in 1..Len(log[id].seq_idxs) : log[id].seq_idxs[k] # None /\ log[id].graph_ids[k] # None}

(* the paired steps whose node already held the symbol for a sequence      *)
(* grafted earlier                                                         *)
MatchedSteps(id) ==
    {k \in PairedSteps(id) :
        \E other \in DOMAIN log :
            /\ PosIn(sorted_seqs, other) < PosIn(sorted_seqs, id)
            /\ other \in DOMAIN g.nodes[log[id].graph_ids[k]]
            /\ g.nodes[log[id].graph_ids[k]][other] = log[id].seq[log[id].seq_idxs[k]]}

(* C4: node_count(g) <= sum of the sequence lengths, with equality iff no  *)
(* trace step pairs a sequence position with an existing node (matched or  *)
(* mismatched).                                                            *)
C4_NodeCountPaired ==
    Aligned =>
        /\ node_count(g) <= TotalLen(seqs)
        /\ node_count(g) = TotalLen(seqs) <=> \A id \in DOMAIN log : PairedSteps(id) = {}

(* C4 as stated: equality iff no two sequences ever matched. *)
C4_NodeCountMatched ==
    Aligned =>
        /\ node_count(g) <= TotalLen(seqs)
        /\ node_count(g) = TotalLen(seqs) <=> \A id \in DOMAIN log : MatchedSteps(id) = {}

(* fewer nodes than symbols although no position was matched: a position  *)
(* was merged into a node holding another symbol                           *)
C4_Witness ==
    /\ Aligned
    /\ node_count(g) < TotalLen(seqs)
    /\ \A id \in DOMAIN log : MatchedSteps(id) = {}

(* two iteration orders that yield the sequences of equal length in the   *)
(* same relative order                                                     *)
TieAgree(m, o1, o2) ==
    \A a, b \in DOMAIN m :
        Len(m[a]) = Len(m[b]) => (PosIn(o1, a) < PosIn(o1, b) <=> PosIn(o2, a) < PosIn(o2, b))

Outcome == [g |-> g, starts |-> starts, status |-> "ok"]

(* C5: align on the same Sequences yields the same graph and Heads in every *)
(* run whose map iteration order yields the sequences of equal length in   *)
(* the same relative order.                                                *)
C5_DeterministicUpToTies ==
    pc = "aligned" =>
        \A o \in Perms(DOMAIN seqs) : TieAgree(seqs, o, iter_order) => align(seqs, o) = Outcome

(* C5 as stated: the same graph and Heads whatever the iteration order.    *)
C5_DeterministicAnyOrder ==
    pc = "aligned" => \A o \in Perms(DOMAIN seqs) : align(seqs, o) = Outcome

(* three sequences of three different lengths, iterated shortest first:    *)
(* five other iteration orders give the same result                        *)
C5_Witness ==
    /\ pc = "aligned" /\ DOMAIN seqs = {1, 2, 3}
    /\ Len(seqs[iter_order[1]]) < Len(seqs[iter_order[2]])
    /\ Len(seqs[iter_order[2]]) < Len(seqs[iter_order[3]])
    /\ sorted_seqs = <<iter_order[3], iter_order[2], iter_order[1]>>
    /\ \E node \in 1..node_count(g) : DOMAIN g.nodes[node] = {1, 2, 3}

SharedByBoth(graph) == \A node \in 1..node_count(graph) : DOMAIN graph.nodes[node] = {1, 2}

(* C6: on {A: [g1, Marker, g2], B: [g2, Marker, g1]} the sequence that the *)
(* iteration yields second is grafted reversed (B when A comes first, A    *)
(* when B comes first), and the graph has exactly 3 nodes, each holding    *)
(* both A and B.                                                           *)
C6_SecondReversed ==
    (seqs = ReversedPair /\ Aligned) =>
        /\ log[sorted_seqs[2]].reversed
        /\ ~log[sorted_seqs[1]].reversed
        /\ node_count(g) = 3
        /\ SharedByBoth(g)

(* C6 as stated: B is the one grafted reversed. *)
C6_BReversed ==
    (seqs = ReversedPair /\ Aligned) =>
        /\ log[2].reversed
        /\ node_count(g) = 3
        /\ SharedByBoth(g)

C6_Witness ==
    /\ seqs = ReversedPair /\ pc = "done"
    /\ iter_order = <<1, 2>>
    /\ log[2].reversed /\ log[2].reverse_score > log[2].direct_score
    /\ strings[1] = strings[2]

(* C7: on A = B = [g1, g2, Marker, g3] the graph has at most 4 nodes, each *)
(* holding both A and B, nothing is grafted reversed, and no trace has an  *)
(* insertion or a deletion step.                                           *)
C7_IdenticalMerge ==
    (seqs = IdenticalPair /\ Aligned) =>
        /\ node_count(g) <= 4
        /\ SharedByBoth(g)
        /\ \A id \in DOMAIN log :
               /\ ~log[id].reversed
               /\ \A k \in 1..Len(log[id].seq_idxs) :
                      log[id].seq_idxs[k] # None /\ log[id].graph_ids[k] # None

C7_Witness ==
    /\ seqs = IdenticalPair /\ pc = "done"
    /\ log[sorted_seqs[2]].graph_ids = <<1, 2, 3, 4>>
    /\ log[sorted_seqs[2]].seq_idxs = <<1, 2, 3, 4>>
    /\ strings[1] = <<1, 2, Marker, 3>> /\ strings[2] = <<1, 2, Marker, 3>>

(* C8: on {A: [g1, g2, g3], B: [g1, g3]} B's trace has one graph-only step *)
(* at A's g2 node, B's row is [g1, Indel, g3], B is merged into A's g1 and *)
(* g3 nodes and no node is created for B.                                  *)
C8_SkipMiddle ==
    (seqs = SkipPair /\ pc = "done") =>
        /\ log[2].graph_ids = <<1, 2, 3>>
        /\ log[2].seq_idxs = <<1, None, 2>>
        /\ strings[2] = <<1, Indel, 3>>
        /\ strings[1] = <<1, 2, 3>>
        /\ node_count(g) = 3
        /\ g.nodes[1] = <<1, 1>> /\ g.nodes[2] = <<2>> /\ g.nodes[3] = <<3, 3>>

C8_Witness ==
    /\ seqs = SkipPair /\ pc = "done"
    /\ Len(strings[2]) = 3 /\ strings[2][2] = Indel
    /\ ~log[2].reversed

(* the contract of insert_hanging_seq on graph, seq and seq_id *)
HangingContract(graph, seq, seq_id) ==
    LET r == insert_hanging_seq(graph, seq, seq_id)
        n == node_count(graph)
    IN  IF seq = <<>> THEN r.g = graph /\ r.first = None /\ r.last = None
        ELSE /\ r.first = n + 1 /\ r.last = n + Len(seq)
             /\ r.g.nodes = graph.nodes \o [k \in 1..Len(seq) |-> [id \in {seq_id} |-> seq[k]]]
             /\ r.g.edges = graph.edges \o
                    [k \in 1..(Len(seq) - 1) |->
                        [source |-> n + k, target |-> n + k + 1, weight |-> <<seq_id>>]]

HangingContractNext ==
    (pc = "graft") =>
        LET id == sorted_seqs[idx + 1]
        IN  \A k \in 0..Len(seqs[id]) : HangingContract(g, SubSeq(seqs[id], 1, k), id)

IsChainOf(graph, seq, seq_id) ==
    /\ graph.nodes = [k \in 1..Len(seq) |-> [id \in {seq_id} |-> seq[k]]]
    /\ graph.edges = [k \in 1..(Len(seq) - 1) |->
                         [source |-> k, target |-> k + 1, weight |-> <<seq_id>>]]

(* C9: insert_hanging_seq appends len(seq) fresh nodes each holding only   *)
(* {seq_id -> symbol}, links consecutive ones with edges labelled          *)
(* [seq_id] and returns (first, last); on an empty seq it returns None and *)
(* leaves the graph alone.  Hence align on a single non-empty sequence     *)
(* yields a simple path of len(seq) nodes and one Heads entry, the first   *)
(* node; on a single empty sequence it yields the empty graph and no Heads *)
(* entry.                                                                  *)
C9_HangingChain ==
    /\ HangingContractNext
    /\ (DOMAIN seqs = {1} /\ Aligned) =>
           /\ IsChainOf(g, seqs[1], 1)
           /\ IF seqs[1] # <<>> THEN DOMAIN starts = {1} /\ starts[1] = 1
              ELSE starts = <<>>

(* C9 as stated: a single sequence always yields one Heads entry.          *)
C9_HangingChainOneHead ==
    /\ HangingContractNext
    /\ (DOMAIN seqs = {1} /\ Aligned) =>
           /\ IsChainOf(g, seqs[1], 1)
           /\ DOMAIN starts = {1}
           /\ starts[1] = 1

C9_Witness ==
    /\ DOMAIN seqs = {1} /\ pc = "aligned"
    /\ Len(seqs[1]) >= 3
    /\ node_count(g) = Len(seqs[1]) /\ Len(g.edges) = Len(seqs[1]) - 1
    /\ starts = <<1>>

IsPrefix(s, t) == Len(s) <= Len(t) /\ SubSeq(t, 1, Len(s)) = s

Grows(g1, g2) ==
    /\ node_count(g1) <= node_count(g2)
    /\ \A n \in 1..node_count(g1) :
           /\ DOMAIN g1.nodes[n] \subseteq DOMAIN g2.nodes[n]
           /\ \A id \in DOMAIN g1.nodes[n] : g2.nodes[n][id] = g1.nodes[n][id]
    /\ Len(g1.edges) <= Len(g2.edges)
    /\ \A k \in 1..Len(g1.edges) :
           /\ g2.edges[k].source = g1.edges[k].source
           /\ g2.edges[k].target = g1.edges[k].target
           /\ IsPrefix(g1.edges[k].weight, g2.edges[k].weight)

(* C10: every step leaves every node and every edge in place: a node keeps *)
(* its index and the entries of its nucs map (entries are only added), an  *)
(* edge keeps its endpoints and its label is only appended to.             *)
C10_GraphOnlyGrows == [][Grows(g, g')]_vars

(* a graft has added an entry to an existing node and appended to the     *)
(* label of an existing edge, and has added nodes of its own               *)
C10_Witness ==
    /\ idx >= 2
    /\ \E n \in 1..node_count(g) : Cardinality(DOMAIN g.nodes[n]) >= 2
    /\ \E k \in 1..Len(g.edges) : Len(g.edges[k].weight) >= 2
    /\ \E n \in 1..node_count(g) : DOMAIN g.nodes[n] = {sorted_seqs[idx]}

(* the key the closure is about to process *)
NextId == sorted_seqs[idx + 1]

(* the edges into node whose label contains id *)
InEdges(graph, node, id) ==
    {k \in 1..Len(graph.edges) : graph.edges[k].target = node /\ HasLabel(graph.edges[k], id)}

HeadIsFirst(id) ==
    /\ id \in DOMAIN g.nodes[starts[id]]
    /\ g.nodes[starts[id]][id] = log[id].seq[1]
    /\ InEdges(g, starts[id], id) = {}
    /\ Len(PathOf(g, starts[id], id, node_count(g))) = Len(seqs[id])

HeadsStep ==
    /\ \A id \in DOMAIN starts : id \in DOMAIN starts' /\ starts'[id] = starts[id]
    /\ \A id \in DOMAIN starts' \ DOMAIN starts :
           /\ pc = "graft" /\ id = NextId /\ g' # g
           /\ DOMAIN starts' = DOMAIN starts \cup {id}

(* C11: a Heads entry appears in the step that grafts its sequence and in  *)
(* no other, keeps its value in every later step, designates the first    *)
(* node of the sequence's path in every later graph, and the returned map  *)
(* has exactly one entry per sequence that put nodes in the graph (the     *)
(* non-empty ones).                                                        *)
C11_HeadsWriteOnce ==
    /\ [](\A id \in DOMAIN starts : HeadIsFirst(id))
    /\ [](Aligned => DOMAIN starts = {id \in DOMAIN seqs : seqs[id] # <<>>})
    /\ [][HeadsStep]_vars

(* the third sequence starts at a node of its own, created by its graft,  *)
(* while the two earlier heads are still in place                          *)
C11_Witness ==
    /\ pc = "aligned" /\ DOMAIN starts = {1, 2, 3}
    /\ DOMAIN g.nodes[starts[sorted_seqs[3]]] = {sorted_seqs[3]}
    /\ starts[sorted_seqs[1]] = 1
    /\ Cardinality({starts[id] : id \in DOMAIN starts}) >= 2

GraftFrame ==
    /\ (pc = "graft" /\ idx >= 1) =>
           LET seq == seqs[NextId]
               direct == affine_sw(g, seq)
               reverse == affine_sw(g, rev(seq))
               entry == log'[NextId]
           IN  /\ entry.direct_score = direct.score
               /\ entry.reverse_score = reverse.score
               /\ <<entry.graph_ids, entry.seq_idxs>> \in
                      {<<direct.graph_idxs, direct.seq_idxs>>,
                       <<reverse.graph_idxs, reverse.seq_idxs>>}
               /\ g' = add_alignment(g, entry.graph_ids, entry.seq_idxs, entry.seq, NextId).g
    /\ (pc = "graft" /\ idx = 0) => g' = insert_hanging_seq(g, seqs[NextId], NextId).g
    /\ pc # "graft" => g' = g

(* C12: in the step that processes a sequence after the first, the direct *)
(* and the reverse score and the grafted trace are those affine_sw yields  *)
(* on the graph the previous step left, and the graph after the step is    *)
(* that graph with add_alignment applied once; the seed step applies       *)
(* insert_hanging_seq once; no other step changes the graph.               *)
C12_AlignerReadsOnly == [][GraftFrame]_vars

(* a graft that changed the graph and whose two scores differ *)
C12_Witness ==
    /\ idx >= 2
    /\ log[sorted_seqs[idx]].reversed
    /\ log[sorted_seqs[idx]].direct_score # log[sorted_seqs[idx]].reverse_score
    /\ node_count(g) > Len(seqs[sorted_seqs[1]])

OrientationStep ==
    (pc = "graft" /\ idx >= 1) =>
        LET seq == seqs[NextId]
            direct == affine_sw(g, seq)
            reverse == affine_sw(g, rev(seq))
            forward == add_alignment(g, direct.graph_idxs, direct.seq_idxs, seq, NextId)
            backward == add_alignment(g, reverse.graph_idxs, reverse.seq_idxs, rev(seq), NextId)
            kept == IF direct.score >= reverse.score THEN forward ELSE backward
        IN  /\ g' = kept.g
            /\ starts' = IF kept.head # None THEN Put(starts, NextId, kept.head) ELSE starts
            /\ log'[NextId].reversed = (direct.score < reverse.score)

(* C13: the step that processes a sequence after the first leaves the     *)
(* graph and the head that add_alignment yields for the forward trace and  *)
(* the sequence as given when the forward score >= the reverse score, and  *)
(* for the trace of the reversed sequence and the reversed symbols         *)
(* otherwise; nothing of the other trace is grafted.                       *)
C13_HigherScoreKept == [][OrientationStep]_vars

(* equal scores for a sequence that differs from its reverse: the forward *)
(* trace was grafted                                                       *)
C13_Witness ==
    /\ idx >= 2
    /\ seqs[sorted_seqs[idx]] # rev(seqs[sorted_seqs[idx]])
    /\ log[sorted_seqs[idx]].direct_score = log[sorted_seqs[idx]].reverse_score
    /\ ~log[sorted_seqs[idx]].reversed
    /\ Strip(poa_to_strings(g, starts)[sorted_seqs[idx]].row) = seqs[sorted_seqs[idx]]

Holding(graph, id) == {node \in 1..node_count(graph) : id \in DOMAIN graph.nodes[node]}

Labelled(graph, id) == {k \in 1..Len(graph.edges) : HasLabel(graph.edges[k], id)}

EmptyLeavesNothing ==
    \A id \in DOMAIN log :
        IF seqs[id] = <<>>
        THEN /\ log[id].graph_ids = <<>> /\ log[id].seq_idxs = <<>>
             /\ id \notin DOMAIN starts
             /\ Holding(g, id) = {} /\ Labelled(g, id) = {}
        ELSE /\ id \in DOMAIN starts
             /\ Cardinality(Holding(g, id)) = Len(seqs[id])

EmptyStep == (pc = "graft" /\ seqs[NextId] = <<>>) => (g' = g /\ starts' = starts)

(* C14: align never fails; an empty sequence has an empty trace, no Heads *)
(* entry, no node and no edge, and the step that processes it (as the seed *)
(* or later) leaves graph and Heads as they were; every non-empty sequence *)
(* of the batch has a Heads entry and its nodes.                           *)
C14_EmptyTolerated ==
    /\ [](pc # "panic")
    /\ [](EmptyLeavesNothing)
    /\ [][EmptyStep]_vars

(* a batch of two grafted non-empty sequences and an empty one, processed *)
C14_Witness ==
    /\ pc = "done" /\ DOMAIN seqs = {1, 2, 3}
    /\ \E id \in DOMAIN seqs : seqs[id] = <<>> /\ id \in DOMAIN log
    /\ Cardinality(DOMAIN starts) = 2
    /\ DOMAIN strings = DOMAIN starts

MarkersOf(seq) == {k \in 1..Len(seq) : seq[k] = Marker}

OneMarkerEach == \A id \in DOMAIN seqs : Cardinality(MarkersOf(seqs[id])) = 1

MarkerNodes(graph) ==
    {node \in 1..node_count(graph) :
        \E id \in DOMAIN graph.nodes[node] : graph.nodes[node][id] = Marker}

(* C15: when every input sequence contains exactly one Marker, all the    *)
(* Markers of the graph align returns are held by one and the same node.   *)
C15_MarkersShareNode ==
    (pc = "aligned" /\ OneMarkerEach) => Cardinality(MarkerNodes(g)) <= 1

(* the keys processed so far are the first idx keys of sorted_seqs *)
GraftedInSortedOrder == DOMAIN log = {sorted_seqs[k] : k \in 1..idx}

LengthOrdered ==
    /\ Len(sorted_seqs) = Len(iter_order)
    /\ {sorted_seqs[k] : k \in 1..Len(sorted_seqs)} = DOMAIN seqs
    /\ \A a, b \in 1..Len(sorted_seqs) :
           a < b =>
               /\ Len(seqs[sorted_seqs[a]]) >= Len(seqs[sorted_seqs[b]])
               /\ Len(seqs[sorted_seqs[a]]) = Len(seqs[sorted_seqs[b]]) =>
                      PosIn(iter_order, sorted_seqs[a]) < PosIn(iter_order, sorted_seqs[b])

SeedIsLongest ==
    idx >= 1 =>
        /\ \A id \in DOMAIN seqs : Len(seqs[id]) <= Len(seqs[sorted_seqs[1]])
        /\ log[sorted_seqs[1]].graph_ids = <<>>
        /\ \A n \in 1..Len(seqs[sorted_seqs[1]]) :
               g.nodes[n][sorted_seqs[1]] = seqs[sorted_seqs[1]][n]

(* C16: once sorted, the keys are processed in an order in which lengths   *)
(* never increase and equal lengths keep the order in which the map        *)
(* iteration yielded them; the sequence seeded into the empty graph has    *)
(* maximal length and occupies the first nodes.                            *)
C16_LongestFirst ==
    pc # "sort" => (GraftedInSortedOrder /\ LengthOrdered /\ SeedIsLongest)

(* the longest sequence is yielded last and seeds the graph; the two      *)
(* others have equal length and keep their iteration order                 *)
C16_Witness ==
    /\ pc = "aligned" /\ DOMAIN seqs = {1, 2, 3}
    /\ sorted_seqs = <<iter_order[3], iter_order[1], iter_order[2]>>
    /\ Len(seqs[iter_order[1]]) = Len(seqs[iter_order[2]])
    /\ seqs[iter_order[1]] # seqs[iter_order[2]]
    /\ iter_order[1] > iter_order[2]

PathSpells(id, seq) ==
    LET path == PathOf(g, starts[id], id, node_count(g))
    IN  /\ Len(path) = Len(seq)
        /\ \A a, b \in 1..Len(path) : path[a] = path[b] => a = b
        /\ Holding(g, id) = {path[k] : k \in 1..Len(path)}
        /\ \A k \in 1..Len(path) : g.nodes[path[k]][id] = seq[k]

(* C17: in every state, for every grafted sequence of length n, exactly n *)
(* distinct nodes hold its seq_id, and the path from its head meets them   *)
(* in the order of the positions 0..n-1 of the grafted orientation, each   *)
(* node holding the symbol of its position.                                *)
C17_PositionsOnce ==
    \A id \in DOMAIN starts :
        /\ Cardinality(Holding(g, id)) = Len(seqs[id])
        /\ PathSpells(id, Oriented(id))

(* a graft whose first positions were inserted as a hanging chain before  *)
(* the first aligned position, and whose later positions were merged       *)
C17_Witness ==
    /\ idx >= 2
    /\ LET id == sorted_seqs[idx]
       IN  /\ log[id].seq_idxs # <<>>
           /\ \E k \in 1..Len(log[id].seq_idxs) : log[id].seq_idxs[k] # None
           /\ ValidSeqIdxs(log[id].seq_idxs)[1] > 1
           /\ PairedSteps(id) # {}
           /\ PathSpells(id, log[id].seq)

(* the ordered pairs of nodes that id's path goes through directly *)
PathPairs(id) ==
    IF id \in DOMAIN starts
    THEN LET path == PathOf(g, starts[id], id, node_count(g))
         IN  {<<path[k], path[k + 1]>> : k \in 1..(Len(path) - 1)}
    ELSE {}

(* C18: in every state, no edge label lists a SeqID twice, no two edges    *)
(* join the same ordered pair of nodes, and a SeqID is in the label of the *)
(* edge (u, v) exactly when its path goes from u directly to v; every      *)
(* label is non-empty.                                                     *)
C18_LabelsAreSets ==
    /\ \A k \in 1..Len(g.edges) :
           /\ g.edges[k].weight # <<>>
           /\ \A x, y \in 1..Len(g.edges[k].weight) :
                  g.edges[k].weight[x] = g.edges[k].weight[y] => x = y
           /\ \A id \in DOMAIN seqs :
                  HasLabel(g.edges[k], id) <=>
                      <<g.edges[k].source, g.edges[k].target>> \in PathPairs(id)
    /\ \A k1, k2 \in 1..Len(g.edges) :
           (g.edges[k1].source = g.edges[k2].source
                /\ g.edges[k1].target = g.edges[k2].target) => k1 = k2
    /\ \A id \in DOMAIN seqs :
           \A pair \in PathPairs(id) :
               \E k \in 1..Len(g.edges) :
                   <<g.edges[k].source, g.edges[k].target>> = pair

(* an edge shared by three sequences next to an edge used by one only *)
C18_Witness ==
    /\ pc = "aligned"
    /\ \E k \in 1..Len(g.edges) : Len(g.edges[k].weight) = 3
    /\ \E k \in 1..Len(g.edges) : Len(g.edges[k].weight) = 1

(* the nodes of id's path, in path order; empty when id has no head *)
PathNodes(id) ==
    IF id \in DOMAIN starts THEN PathOf(g, starts[id], id, node_count(g)) ELSE <<>>

(* C19: in every state, every node's map is non-empty, a node's map has   *)
(* the key seq_id exactly when the path of that sequence passes through    *)
(* the node, the value stored is the symbol of the position of the grafted *)
(* orientation that the path reaches there, and poa_to_strings finds       *)
(* nucs[seq_id] in every node it visits.                                   *)
C19_NucsFollowPaths ==
    /\ \A node \in 1..node_count(g) : DOMAIN g.nodes[node] # {}
    /\ \A id \in DOMAIN seqs :
           LET path == PathNodes(id)
           IN  /\ \A node \in 1..node_count(g) :
                      id \in DOMAIN g.nodes[node] <=>
                          \E k \in 1..Len(path) : path[k] = node
               /\ \A k \in 1..Len(path) :
                      /\ k <= Len(seqs[id])
                      /\ id \in DOMAIN g.nodes[path[k]]
                      /\ g.nodes[path[k]][id] = Oriented(id)[k]
    /\ \A id \in DOMAIN starts : poa_to_strings(g, starts)[id].status = "ok"

(* a node through which three paths pass with two different symbols *)
C19_Witness ==
    /\ pc = "done"
    /\ \E node \in 1..node_count(g) :
           /\ DOMAIN g.nodes[node] = {1, 2, 3}
           /\ Cardinality({g.nodes[node][id] : id \in {1, 2, 3}}) = 2
    /\ \E node \in 1..node_count(g) : Cardinality(DOMAIN g.nodes[node]) = 1

(* the largest element of a non-empty finite set of integers *)
MaxOf(S) == CHOOSE x \in S : \A y \in S : y <= x

(* match(i, sym) as the claim states it *)
MatchScore(graph, node, sym) ==
    IF \E id \in DOMAIN graph.nodes[node] : graph.nodes[node][id] = sym
    THEN IF sym = Marker THEN 100 ELSE matches
    ELSE mismatches

(* the rows of the predecessors of node, row 0 when it has none *)
PredRowSet(graph, node, rank) ==
    LET P == {rank[graph.edges[k].source] :
                 k \in {x \in 1..Len(graph.edges) : graph.edges[x].target = node}}
    IN  IF P = {} THEN {0} ELSE P

Recurrences(graph, seq) ==
    LET order == toposort(graph)
        rank == NodesToRanks(order)
        M == build_matrix(graph, seq, order, rank)
    IN  \A i \in 1..Len(order) : \A j \in 1..Len(seq) :
            LET P == PredRowSet(graph, order[i], rank)
                diag == MaxOf({M.H[p][j - 1] + MatchScore(graph, order[i], seq[j]) : p \in P})
            IN  /\ M.F[i][j] =
                       MaxOf({max(M.H[p][j] + open_gap, M.F[p][j] + extend_gap) : p \in P})
                /\ M.E[i][j] = max(M.H[i][j - 1] + open_gap, M.E[i][j - 1] + extend_gap)
                /\ M.H[i][j] = max(diag, max(M.F[i][j], M.E[i][j]))

(* C20: for the graph the next sequence is aligned against, and for that   *)
(* sequence and its reverse, every cell (i, j) with i >= 1 and j >= 1 of   *)
(* the matrices build_matrix fills satisfies the recurrences: F is the max *)
(* over all predecessor rows p (row 0 when there is none) of               *)
(* max(H[p][j] + open_gap, F[p][j] + extend_gap), E is                     *)
(* max(H[i][j-1] + open_gap, E[i][j-1] + extend_gap), and H is the max of  *)
(* F, E and the max over p of H[p][j-1] + match, where match is 100 for a  *)
(* Marker the node holds, matches for another symbol it holds, and         *)
(* mismatches otherwise.                                                   *)
C20_Recurrences ==
    (pc = "graft" /\ idx >= 1) =>
        (Recurrences(g, seqs[NextId]) /\ Recurrences(g, rev(seqs[NextId])))

(* a node with two predecessors whose diagonal terms differ, the larger   *)
(* one coming from the predecessor that is not the first                   *)
C20_Witness ==
    /\ pc = "graft" /\ idx = 2 /\ seqs[NextId] # <<>>
    /\ LET order == toposort(g)
           rank == NodesToRanks(order)
           M == build_matrix(g, seqs[NextId], order, rank)
       IN  \E node \in 1..node_count(g) :
               LET preds == edges_directed(g, node, TRUE)
               IN  /\ Len(preds) >= 2
                   /\ \E j \in 1..Len(seqs[NextId]) :
                          M.H[rank[preds[1].source]][j - 1] < M.H[rank[preds[2].source]][j - 1]

(* the nodes with an edge into node *)
PredNodes(graph, node) ==
    {graph.edges[k].source : k \in {x \in 1..Len(graph.edges) : graph.edges[x].target = node}}

BorderCells(graph, seq) ==
    LET order == toposort(graph)
        rank == NodesToRanks(order)
        M == build_matrix(graph, seq, order, rank)
    IN  \A node \in 1..node_count(graph) :
            LET r == rank[node]
                P == PredNodes(graph, node)
            IN  /\ M.F[r][0] = IF P = {} THEN open_gap
                               ELSE extend_gap + MaxOf({M.F[rank[p]][0] : p \in P})
                /\ M.H[r][0] = M.F[r][0]
                /\ M.E[r][0] = NEG_INF

(* C21: for the graph the next sequence is aligned against, the border    *)
(* cell F[r][0] = H[r][0] of the row r of every node (r its topological    *)
(* rank + 1) is open_gap when the node has no predecessor and otherwise    *)
(* extend_gap plus the border value of its predecessor's row, and E[r][0]  *)
(* is NEG_INF.                                                             *)
C21_BorderByRank ==
    (pc = "graft" /\ idx >= 1) => BorderCells(g, seqs[NextId])

Tails(graph) == {node \in 1..node_count(graph) : OutDegree(graph, node) = 0}

LastColumn(graph, seq, node) ==
    LET order == toposort(graph)
        rank == NodesToRanks(order)
    IN  build_matrix(graph, seq, order, rank).H[rank[node]][Len(seq)]

StartsAtBestTail(graph, seq) ==
    LET order == toposort(graph)
        a == affine_sw(graph, seq)
    IN  /\ a.status = "ok"
        /\ a.max_i \in 1..Len(order)
        /\ order[a.max_i] \in Tails(graph)
        /\ a.score = LastColumn(graph, seq, order[a.max_i])
        /\ a.score = MaxOf({LastColumn(graph, seq, t) : t \in Tails(graph)})

NoStart(graph, seq) ==
    LET a == affine_sw(graph, seq)
    IN  /\ a.status = "ok" /\ a.max_i = 0 /\ a.score = NEG_INF
        /\ a.graph_idxs = <<>> /\ a.seq_idxs = <<>>

(* C22: when a sequence is aligned, in either orientation, against a graph *)
(* with at least one node, the backtracking starts in the row of a node    *)
(* without outgoing edge, the score returned is the last-column H of that  *)
(* row, and it is the maximum of the last-column H over the nodes without  *)
(* outgoing edge; against the graph without nodes there is no such node,   *)
(* the backtracking does not start and the score returned is NEG_INF.      *)
C22_StartsAtBestTail ==
    (pc = "graft" /\ idx >= 1) =>
        \A seq \in {seqs[NextId], rev(seqs[NextId])} :
            IF node_count(g) = 0 THEN NoStart(g, seq) ELSE StartsAtBestTail(g, seq)

(* C22 as stated: for every graph, the empty one included *)
C22_StartsAtBestTailAlways ==
    (pc = "graft" /\ idx >= 1) =>
        /\ StartsAtBestTail(g, seqs[NextId])
        /\ StartsAtBestTail(g, rev(seqs[NextId]))

C22_Witness ==
    /\ pc = "graft" /\ idx >= 1
    /\ \E node \in (1..node_count(g)) \ Tails(g) :
           LastColumn(g, seqs[NextId], node) > affine_sw(g, seqs[NextId]).score

(* the entries of xs that are not None, in order *)
Present(xs) == SelectSeq(xs, LAMBDA x : x # None)

StrictlyIncreasing(xs) == \A k \in 1..(Len(xs) - 1) : xs[k] < xs[k + 1]

TraceShape(graph, seq) ==
    LET a == affine_sw(graph, seq)
        rank == NodesToRanks(toposort(graph))
        nodes == Present(a.graph_idxs)
    IN  /\ a.status = "ok"
        /\ Len(a.graph_idxs) = Len(a.seq_idxs)
        /\ Len(a.kinds) = Len(a.seq_idxs)
        /\ \A k \in 1..Len(a.seq_idxs) :
               /\ a.graph_idxs[k] # None \/ a.seq_idxs[k] # None
               /\ (a.graph_idxs[k] # None /\ a.seq_idxs[k] # None) <=> a.kinds[k] = "match"
               /\ (a.graph_idxs[k] # None /\ a.seq_idxs[k] = None) <=> a.kinds[k] = "graph"
               /\ (a.graph_idxs[k] = None /\ a.seq_idxs[k] # None) <=> a.kinds[k] = "seq"
               /\ a.graph_idxs[k] # None => a.graph_idxs[k] \in 1..node_count(graph)
               /\ a.seq_idxs[k] # None => a.seq_idxs[k] \in 1..Len(seq)
        /\ StrictlyIncreasing([k \in 1..Len(nodes) |-> rank[nodes[k]]])
        /\ StrictlyIncreasing(Present(a.seq_idxs))

(* C23: the trace affine_sw returns, for either orientation of the next    *)
(* sequence, is two lists of equal length; every entry has a graph node or  *)
(* a sequence position; it has both exactly when the step was a            *)
(* match/mismatch, only the node exactly when it was a graph-only step and  *)
(* only the position exactly when it was a sequence-only step; the nodes    *)
(* are in strictly increasing topological rank and the positions strictly   *)
(* increasing.                                                              *)
C23_TraceShape ==
    (pc = "graft" /\ idx >= 1) =>
        /\ TraceShape(g, seqs[NextId])
        /\ TraceShape(g, rev(seqs[NextId]))

C23_Witness ==
    /\ pc = "graft" /\ idx >= 1
    /\ LET a == affine_sw(g, seqs[NextId])
       IN  {a.kinds[k] : k \in 1..Len(a.kinds)} = {"match", "graph", "seq"}

(* the incoming edges of the node of row st.i, by position in the edge     *)
(* list (the order of insertion), whose source row explains H[i][j] in the  *)
(* check that made the step st                                              *)
Explaining(graph, seq, M, rank, order, st) ==
    LET node == order[st.i]
        hij == M.H[st.i][st.j]
        mc == match_cost(NodeNucs(graph, node), seq[st.j])
    IN  {k \in 1..Len(graph.edges) :
            /\ graph.edges[k].target = node
            /\ LET p == rank[graph.edges[k].source]
               IN  IF st.kind = "match" THEN hij = M.H[p][st.j - 1] + mc
                   ELSE \/ hij = M.F[p][st.j] + extend_gap
                        \/ hij = M.H[p][st.j] + open_gap}

MinOf(S) == CHOOSE x \in S : \A y \in S : x <= y

(* every match or graph-only step of the main loop goes to the source of   *)
(* the edge Pick chooses among the explaining ones                          *)
TieBreak(graph, seq, Pick(_)) ==
    LET order == toposort(graph)
        rank == NodesToRanks(order)
        M == build_matrix(graph, seq, order, rank)
        a == affine_sw(graph, seq)
    IN  \A n \in 1..Len(a.steps) :
            LET st == a.steps[n]
                X == Explaining(graph, seq, M, rank, order, st)
            IN  (st.kind \in {"match", "graph"} /\ X # {}) =>
                    st.prev_i = rank[graph.edges[Pick(X)].source]

Tied(graph, seq, kind) ==
    LET order == toposort(graph)
        rank == NodesToRanks(order)
        M == build_matrix(graph, seq, order, rank)
        a == affine_sw(graph, seq)
    IN  \E n \in 1..Len(a.steps) :
            /\ a.steps[n].kind = kind
            /\ Cardinality(Explaining(graph, seq, M, rank, order, a.steps[n])) >= 2

Terminates(graph, seq) ==
    LET a == affine_sw(graph, seq)
        n == Len(a.steps)
    IN  /\ a.status = "ok"
        /\ ~a.unexplained
        /\ n <= node_count(graph) + Len(seq)
        /\ \A k \in 1..n :
               LET st == a.steps[k]
               IN  /\ st.kind # "none"
                   /\ st.i >= 1 /\ st.j >= 1
                   /\ st.prev_i \in 0..st.i /\ st.prev_j \in 0..st.j
                   /\ st.prev_i < st.i \/ st.prev_j < st.j
                   /\ k < n => a.steps[k + 1].i = st.prev_i /\ a.steps[k + 1].j = st.prev_j
        /\ IF n = 0 THEN a.max_i = 0 \/ seq = <<>>
           ELSE /\ a.steps[1].i = a.max_i /\ a.steps[1].j = Len(seq)
                /\ a.steps[n].prev_i = 0 \/ a.steps[n].prev_j = 0

(* C25: for every graph reached and either orientation of the sequence     *)
(* aligned against it, backtracking terminates: every iteration is         *)
(* explained by the match, graph-only or sequence-only check, every        *)
(* iteration of the main loop and of both extension loops strictly          *)
(* decreases i or j, neither goes below 0, and the walk stops as soon as    *)
(* i = 0 or j = 0.                                                          *)
C25_BacktrackTerminates ==
    (pc = "graft" /\ idx >= 1) =>
        /\ Terminates(g, seqs[NextId])
        /\ Terminates(g, rev(seqs[NextId]))

HasStep(a, kind) == \E k \in 1..Len(a.steps) : a.steps[k].kind = kind

C25_Witness ==
    /\ pc = "graft" /\ idx >= 1
    /\ HasStep(affine_sw(g, seqs[NextId]), "match")
    /\ HasStep(affine_sw(g, seqs[NextId]), "extend_up")

UpdateEdgeContract(graph, start, end, label) ==
    LET r == update_edge(graph, start, end, label)
        X == {k \in 1..Len(graph.edges) :
                 graph.edges[k].source = start /\ graph.edges[k].target = end}
    IN  /\ r.nodes = graph.nodes
        /\ IF start = None \/ end = None THEN r = graph
           ELSE IF X # {}
           THEN /\ Len(r.edges) = Len(graph.edges)
                /\ \E e \in X :
                       /\ r.edges[e] = [graph.edges[e] EXCEPT !.weight = Append(@, label)]
                       /\ \A k \in (1..Len(graph.edges)) \ {e} : r.edges[k] = graph.edges[k]
           ELSE r.edges = Append(graph.edges,
                                 [source |-> start, target |-> end, weight |-> <<label>>])

(* C26: on every graph reached, for every pair of endpoints, present or    *)
(* absent, update_edge returns the graph unchanged when an endpoint is      *)
(* absent, appends the label to the one existing edge start->end when there *)
(* is one, and otherwise appends one new edge start->end labelled with the  *)
(* label alone; the nodes and all the other edges are unchanged.            *)
C26_UpdateEdgeContract ==
    (pc = "graft") =>
        \A start, end \in {None} \cup (1..node_count(g)) :
            UpdateEdgeContract(g, start, end, NextId)

C26_Witness ==
    /\ pc = "graft"
    /\ \E k \in 1..Len(g.edges) : Len(g.edges[k].weight) >= 2
    /\ \E k \in 1..Len(g.edges) : g.edges[k].weight # <<NextId>> /\ Len(g.edges[k].weight) = 1

(* the steps of a trace that consume a sequence position, in order *)
Consuming(entry) ==
    SelectSeq([k \in 1..Len(entry.seq_idxs) |-> k], LAMBDA k : entry.seq_idxs[k] # None)

(* the positions, in order, that the path of a grafted trace goes through: *)
(* the prefix before the first consumed position, the consumed positions,   *)
(* the suffix after the last one                                            *)
GraftPositions(entry) ==
    LET c == Consuming(entry)
        first == entry.seq_idxs[c[1]]
        last == entry.seq_idxs[c[Len(c)]]
    IN  [k \in 1..(first - 1) |-> k]
        \o [k \in 1..Len(c) |-> entry.seq_idxs[c[k]]]
        \o [k \in 1..(Len(entry.seq) - last) |-> last + k]

(* the node of each element of GraftPositions: new nodes are numbered from *)
(* the prefix, then the suffix, then the consumed positions without node    *)
GraftPath(old, entry) ==
    LET c == Consuming(entry)
        n == node_count(old)
        first == entry.seq_idxs[c[1]]
        last == entry.seq_idxs[c[Len(c)]]
        lead == first - 1
        trail == Len(entry.seq) - last
        fresh(k) == Cardinality({h \in 1..k : entry.graph_ids[c[h]] = None})
    IN  [k \in 1..lead |-> n + k]
        \o [k \in 1..Len(c) |-> IF entry.graph_ids[c[k]] = None
                                THEN n + lead + trail + fresh(k)
                                ELSE entry.graph_ids[c[k]]]
        \o [k \in 1..trail |-> n + lead + k]

AddAlignmentContract(old, new, entry, id, head) ==
    LET P == GraftPath(old, entry)
        pos == GraftPositions(entry)
        n == node_count(old)
        At(v) == {k \in 1..Len(P) : P[k] = v}
        Pairs == {<<P[k], P[k + 1]>> : k \in 1..(Len(P) - 1)}
        OldPairs == {<<old.edges[k].source, old.edges[k].target>> : k \in 1..Len(old.edges)}
    IN  /\ Len(P) = Len(entry.seq)
        /\ \A a, b \in 1..Len(P) : P[a] = P[b] => a = b
        /\ head = P[1]
        /\ node_count(new) =
               n + Cardinality({k \in 1..Len(P) : P[k] > n})
        /\ \A v \in 1..node_count(new) :
               IF At(v) = {} THEN v <= n /\ new.nodes[v] = old.nodes[v]
               ELSE LET sym == entry.seq[pos[CHOOSE k \in At(v) : TRUE]]
                    IN  IF v <= n THEN new.nodes[v] = nucs_insert(old.nodes[v], id, sym)
                        ELSE new.nodes[v] = [x \in {id} |-> sym]
        /\ Len(new.edges) = Len(old.edges) + Cardinality(Pairs \ OldPairs)
        /\ \A k \in 1..Len(old.edges) :
               new.edges[k] =
                   IF <<old.edges[k].source, old.edges[k].target>> \in Pairs
                   THEN [old.edges[k] EXCEPT !.weight = Append(@, id)]
                   ELSE old.edges[k]
        /\ \A k \in (Len(old.edges) + 1)..Len(new.edges) :
               /\ new.edges[k].weight = <<id>>
               /\ <<new.edges[k].source, new.edges[k].target>> \in Pairs \ OldPairs
        /\ \A a, b \in (Len(old.edges) + 1)..Len(new.edges) :
               (new.edges[a].source = new.edges[b].source
                /\ new.edges[a].target = new.edges[b].target) => a = b

AddAlignmentStep ==
    (pc = "graft" /\ idx >= 1 /\ pc' # "panic" /\ log'[NextId].graph_ids # <<>>) =>
        /\ NextId \in DOMAIN starts'
        /\ Consuming(log'[NextId]) # <<>>
        /\ AddAlignmentContract(g, g', log'[NextId], NextId, starts'[NextId])

(* C27: when add_alignment grafts a non-empty trace, the steps without     *)
(* sequence position create no node, change no node and add no edge; each   *)
(* step with a position and no graph node creates one node holding only     *)
(* {seq_id: symbol}; each step with a position and a graph node adds        *)
(* (seq_id, symbol) to that node; these nodes in order, preceded by the     *)
(* new nodes of the positions before the first consumed one, are linked by  *)
(* edges labelled seq_id (appended to an existing edge's label, or alone on *)
(* a new edge); nothing else changes and the first node of the path is      *)
(* returned.                                                                *)
C27_AddAlignmentSteps == [][AddAlignmentStep]_vars

C27_Witness ==
    /\ idx >= 2
    /\ LET entry == log[sorted_seqs[idx]]
       IN  /\ entry.graph_ids # <<>>
           /\ \E k \in 1..Len(entry.seq_idxs) :
                  entry.seq_idxs[k] = None /\ entry.graph_ids[k] # None
           /\ \E k \in 1..Len(entry.seq_idxs) :
                  entry.seq_idxs[k] # None /\ entry.graph_ids[k] = None
           /\ \E k \in 1..Len(entry.seq_idxs) :
                  entry.seq_idxs[k] # None /\ entry.graph_ids[k] # None

(* the column of a node: its place in the topological order *)
ColumnOf(node) == PosIn(toposort(g), node)

RowShape(id) ==
    LET path == PathNodes(id)
        on == {path[k] : k \in 1..Len(path)}
    IN  /\ Len(strings[id]) = node_count(g)
        /\ \A node \in 1..node_count(g) :
               strings[id][ColumnOf(node)] =
                   IF node \in on THEN g.nodes[node][id] ELSE Indel
        /\ \A k \in 1..(Len(path) - 1) : ColumnOf(path[k]) < ColumnOf(path[k + 1])
        /\ \A k \in 1..Len(path) : strings[id][ColumnOf(path[k])] # Indel

(* C28: poa_to_strings returns one row per entry of Heads, each as long as *)
(* the graph has nodes; the entry in the topological column of a node is    *)
(* the symbol the sequence put in that node for exactly the nodes of its    *)
(* path and Indel in every other column; the columns of the path are        *)
(* strictly increasing along it, and two sequences that share a node have   *)
(* their symbols in the same column.                                        *)
C28_RowsFollowPaths ==
    (pc = "done") =>
        /\ DOMAIN strings = DOMAIN starts
        /\ \A id \in DOMAIN starts : RowShape(id)
        /\ \A a, b \in DOMAIN starts :
               \A node \in Holding(g, a) \cap Holding(g, b) :
                   /\ strings[a][ColumnOf(node)] = g.nodes[node][a]
                   /\ strings[b][ColumnOf(node)] = g.nodes[node][b]

(* three rows over a graph whose topological order is not the order of     *)
(* creation of its nodes, two of them sharing a node and one with an Indel  *)
C28_Witness ==
    /\ pc = "done"
    /\ Cardinality(DOMAIN strings) = 3
    /\ toposort(g) # [n \in 1..node_count(g) |-> n]
    /\ \E a, b \in DOMAIN starts : a # b /\ Holding(g, a) \cap Holding(g, b) # {}
    /\ \E id \in DOMAIN strings : \E c \in 1..Len(strings[id]) : strings[id][c] = Indel

(* the positions of the trace are start, start + 1, ..., Len(seq), each    *)
(* once, and add_alignment grafts the trace creating new nodes only for     *)
(* the positions before start and the consumed positions without node       *)
ContiguousToEnd(graph, seq, id) ==
    LET a == affine_sw(graph, seq)
        v == ValidSeqIdxs(a.seq_idxs)
        new == add_alignment(graph, a.graph_idxs, a.seq_idxs, seq, id)
        unpaired == {k \in 1..Len(a.seq_idxs) :
                        a.seq_idxs[k] # None /\ a.graph_idxs[k] = None}
    IN  /\ a.status = "ok"
        /\ v # <<>>
        /\ v = [k \in 1..Len(v) |-> v[1] + k - 1]
        /\ v[Len(v)] = Len(seq)
        /\ new.status = "ok"
        /\ new.head # None
        /\ node_count(new.g) = node_count(graph) + (v[1] - 1) + Cardinality(unpaired)
        /\ \A k \in 1..(v[1] - 1) :
               new.g.nodes[node_count(graph) + k] = [x \in {id} |-> seq[k]]

(* C29: for a non-empty sequence aligned, in either orientation, against a *)
(* reached graph with at least one node, the trace holds at least one       *)
(* sequence position and its positions are exactly the contiguous range     *)
(* from the first one to the last position of the sequence, each once;      *)
(* add_alignment does not fail on it, creates no chain after the last       *)
(* position, and creates a hanging chain only for the positions before the  *)
(* first one.                                                               *)
C29_PositionsContiguous ==
    (pc = "graft" /\ idx >= 1 /\ seqs[NextId] # <<>> /\ node_count(g) > 0) =>
        /\ ContiguousToEnd(g, seqs[NextId], NextId)
        /\ ContiguousToEnd(g, rev(seqs[NextId]), NextId)

C29_Witness ==
    /\ pc = "graft" /\ idx >= 1 /\ seqs[NextId] # <<>> /\ node_count(g) > 0
    /\ LET a == affine_sw(g, seqs[NextId])
           v == ValidSeqIdxs(a.seq_idxs)
       IN  /\ v[1] > 1
           /\ Len(v) < Len(a.seq_idxs)
           /\ a.seq_idxs[Len(a.seq_idxs)] = None

(* what a delay line of the size of sr returns after m writes *)
Delayed(m) ==
    IF m < Len(sr.reg) THEN sr_init ELSE written[m - Len(sr.reg) + 1]

DelayLine ==
    /\ Len(sr.reg) \in 1..MaxShift
    /\ sr.i \in 0..(Len(sr.reg) - 1)
    /\ read(sr) = Delayed(Len(written))
    /\ \A n \in 1..Len(last_read) : last_read[n].value = Delayed(last_read[n].m)

ReadFrame == (last_read' # last_read) => (sr' = sr /\ written' = written)

(* C30: a ShiftRegister of size k > 0 is a delay line: after m writes,     *)
(* read() returns the initial value when m < k and otherwise the value of   *)
(* write number m - k + 1; the index stays in 0..k-1 and a read() changes   *)
(* neither the register nor what a later read() returns.                    *)
C30_DelayLine == []DelayLine /\ [][ReadFrame]_vars

(* a register of size 3 written more than twice its size, read after the   *)
(* index wrapped, the value read differing from the latest one written      *)
C30_Witness ==
    /\ Len(sr.reg) = 3
    /\ Len(written) >= 2 * Len(sr.reg)
    /\ last_read # <<>>
    /\ last_read[1].m = Len(written)
    /\ last_read[1].value # written[Len(written)]
    /\ last_read[1].value # sr_init

====
